---- MODULE Spec2Model ----
(***************************************************************************)
(* State-machine model of the PhyMuTi core (device manager, memory         *)
(* manager, monitor, action manager, rule engine).                         *)
(*                                                                         *)
(* Addresses are AddrBits wide and bytes ByteBits wide: the C code uses    *)
(* uint64_t addresses (wrap-around at 2^64) and 8-bit bytes; the model     *)
(* keeps the wrap-around arithmetic at a width TLC can enumerate.          *)
(*                                                                         *)
(* A thread is a stack of frames.  A frame exists only for an API call     *)
(* that is suspended inside user code (a device hook, an action callback,  *)
(* a rule condition) or between two action executions of a dispatch; API   *)
(* calls that run no user code are single atomic steps taken under their   *)
(* registry mutex.                                                         *)
(***************************************************************************)
EXTENDS Integers, Sequences, FiniteSets, TLC

(* ------------------------------ bounds --------------------------------- *)
AddrBits == 5
ByteBits == 2
NThreads == 2
MaxDepth == 3
MaxRegions == 2
MaxActions == 2
MaxAccesses == 1
MaxWatchpoints == 2
MaxTypes == 2
MaxDevices == 2
MaxRules == 2
CbDepth == 2
MaxBind == 33
MonAccesses == 2
U32Bits == 4
AccAccesses == 2

(* ------------------------- program constants --------------------------- *)
PHYMUTI_SUCCESS == 0
PHYMUTI_ERROR_INVALID_PARAM == -1
PHYMUTI_ERROR_NOT_FOUND == -3
PHYMUTI_ERROR_ALREADY_EXISTS == -4
PHYMUTI_ERROR_NOT_SUPPORTED == -5
PHYMUTI_ERROR_BUSY == -8
PHYMUTI_ERROR_DEVICE_TYPE_NOT_FOUND == -100
PHYMUTI_ERROR_DEVICE_NOT_FOUND == -101
PHYMUTI_ERROR_MEMORY_OUT_OF_RANGE == -201
PHYMUTI_ERROR_MEMORY_PERMISSION == -202
PHYMUTI_ERROR_MEMORY_ALIGNMENT == -203
PHYMUTI_ERROR_WATCHPOINT_NOT_FOUND == -300
PHYMUTI_ERROR_ACTION_NOT_FOUND == -400
PHYMUTI_ERROR_ACTION_EXECUTE_FAILED == -401
PHYMUTI_ERROR_RULE_NOT_FOUND == -500

MEMORY_FLAG_READ == 1
MEMORY_FLAG_WRITE == 2
MEMORY_FLAG_EXEC == 4

MEMORY_ACCESS_READ == 0
MEMORY_ACCESS_WRITE == 1
MEMORY_ACCESS_EXEC == 2

WATCHPOINT_READ == 1
WATCHPOINT_WRITE == 2
WATCHPOINT_ACCESS == 3
WATCHPOINT_VALUE_WRITE == 4

MONITOR_INVALID_ID == 0
ACTION_INVALID_ID == 0
RULE_INVALID_ID == 0
MAX_MATCHES == 32
ACTION_TYPE_CALLBACK == 0
ACTION_TYPE_SCRIPT == 1
ACTION_TYPE_COMMAND == 2

NULL == 0

\* a NULL char pointer passed where a name is expected
NULL_NAME == "(null)"

(* ------------------------------ state ---------------------------------- *)
VARIABLES
    device_type_list,     \* registered classes, newest first
    device_list,          \* device directory, newest first
    memory_region_list,   \* region directory, newest first
    watchpoint_list,      \* watchpoints, newest first
    next_watchpoint_id,
    action_list,          \* actions, newest first
    next_action_id,
    rule_list,            \* rules, newest first
    next_rule_id,
    mutex,                \* recursive registry mutexes: owner and depth
    stack,                \* per thread: suspended API calls, innermost first
    last,                 \* the API call that returned most recently
    last_notify,          \* the dispatch (of a notify, of a rule) that returned most recently
    heap_corrupted,       \* a store went outside a region's backing (undefined behaviour)
    naccess,              \* number of typed and buffer accesses made so far
    nnotify               \* number of monitor_notify_memory_access walks made so far

devVars == <<device_type_list, device_list>>
memVars == <<memory_region_list, heap_corrupted, naccess>>
monVars == <<watchpoint_list, next_watchpoint_id>>
actVars == <<action_list, next_action_id>>
ruleVars == <<rule_list, next_rule_id>>
vars == <<device_type_list, device_list, memory_region_list, watchpoint_list,
          next_watchpoint_id, action_list, next_action_id, rule_list,
          next_rule_id, mutex, stack, last, last_notify, heap_corrupted, naccess,
          nnotify>>

(* ------------------------------ helpers -------------------------------- *)
AddrMod == 2 ^ AddrBits
ByteMod == 2 ^ ByteBits
Threads == 1 .. NThreads
Addrs == 0 .. (AddrMod - 1)

\* the values of a uint32_t (ids, the size parameter of the monitor)
U32Mod == 2 ^ U32Bits

\* conversion of a size_t or an incremented counter to uint32_t
ToU32(x) == x % U32Mod

\* unsigned addition of the address width (uint64_t in the source)
AddU64(a, b) == (a + b) % AddrMod

\* (flags & bit) for a single-bit mask
TestFlag(flags, bit) == (flags \div bit) % 2 = 1

\* (addr & mask) for mask = 2^k - 1
AndMask(addr, mask) == addr % (mask + 1)

SeqToSet(s) == { s[i] : i \in 1 .. Len(s) }

\* a removal that fills the hole with the last element
RemoveAt_SwapLast(s, k) ==
    [ i \in 1 .. (Len(s) - 1) |-> IF i = k THEN s[Len(s)] ELSE s[i] ]

RemoveAt(s, k) == [ i \in 1 .. (Len(s) - 1) |-> IF i < k THEN s[i] ELSE s[i + 1] ]

IndexOf(s, P(_)) == IF \E i \in 1 .. Len(s) : P(s[i])
                    THEN CHOOSE i \in 1 .. Len(s) :
                             P(s[i]) /\ \A j \in 1 .. (i - 1) : ~ P(s[j])
                    ELSE 0

MutexNames == {"device_mutex", "memory_region_mutex", "watchpoint_mutex",
               "action_mutex", "rule_mutex"}

\* pthread_mutex_lock on a PTHREAD_MUTEX_RECURSIVE mutex can proceed
CanLock(m, t) == mutex[m].owner \in {0, t}

Lock(mx, m, t) == [mx EXCEPT ![m] = [owner |-> t, depth |-> mx[m].depth + 1]]

Unlock(mx, m, t) ==
    [mx EXCEPT ![m] = IF mx[m].depth <= 1
                      THEN [owner |-> 0, depth |-> 0]
                      ELSE [owner |-> t, depth |-> mx[m].depth - 1]]

\* the thread is running user code: the embedder's own code (empty stack)
\* or a callback the innermost suspended API call has invoked
InUserCode(t) == IF stack[t] = <<>> THEN TRUE ELSE Head(stack[t]).pc = "user"

CanCall(t) == InUserCode(t) /\ Len(stack[t]) < MaxDepth

Push(t, f) == [stack EXCEPT ![t] = <<f>> \o stack[t]]

NoCall == [op |-> "none", in |-> <<>>, out |-> 0]

Returned(op, in, out) == [op |-> op, in |-> in, out |-> out]

(* --------------------------- memory manager ---------------------------- *)
RegionPtrs == 1 .. MaxRegions

LiveRegionPtrs == { memory_region_list[i].ptr : i \in 1 .. Len(memory_region_list) }

RegionAt(p) == memory_region_list[IndexOf(memory_region_list, LAMBDA r : r.ptr = p)]

\* check_memory_access with the upper bound test off by one (>= for >)
check_memory_access_OffByOne(region, addr, size, access_type) ==
    IF addr < region.base_addr
       \/ AddU64(addr, size) >= AddU64(region.base_addr, region.size)
    THEN PHYMUTI_ERROR_MEMORY_OUT_OF_RANGE
    ELSE IF access_type = MEMORY_ACCESS_READ
         THEN IF ~ TestFlag(region.flags, MEMORY_FLAG_READ)
              THEN PHYMUTI_ERROR_MEMORY_PERMISSION ELSE PHYMUTI_SUCCESS
         ELSE IF access_type = MEMORY_ACCESS_WRITE
         THEN IF ~ TestFlag(region.flags, MEMORY_FLAG_WRITE)
              THEN PHYMUTI_ERROR_MEMORY_PERMISSION ELSE PHYMUTI_SUCCESS
         ELSE PHYMUTI_ERROR_INVALID_PARAM

check_memory_access(region, addr, size, access_type) ==
    IF addr < region.base_addr
       \/ AddU64(addr, size) > AddU64(region.base_addr, region.size)
    THEN PHYMUTI_ERROR_MEMORY_OUT_OF_RANGE
    ELSE IF access_type = MEMORY_ACCESS_READ
         THEN IF ~ TestFlag(region.flags, MEMORY_FLAG_READ)
              THEN PHYMUTI_ERROR_MEMORY_PERMISSION ELSE PHYMUTI_SUCCESS
         ELSE IF access_type = MEMORY_ACCESS_WRITE
         THEN IF ~ TestFlag(region.flags, MEMORY_FLAG_WRITE)
              THEN PHYMUTI_ERROR_MEMORY_PERMISSION ELSE PHYMUTI_SUCCESS
         ELSE IF access_type = MEMORY_ACCESS_EXEC
         THEN IF ~ TestFlag(region.flags, MEMORY_FLAG_EXEC)
              THEN PHYMUTI_ERROR_MEMORY_PERMISSION ELSE PHYMUTI_SUCCESS
         ELSE PHYMUTI_ERROR_INVALID_PARAM

\* the eight typed accessors: name, width in bytes, alignment mask, kind
TypedOps ==
    { [name |-> "memory_read_byte",        n |-> 1, mask |-> 0, kind |-> MEMORY_ACCESS_READ],
      [name |-> "memory_write_byte",       n |-> 1, mask |-> 0, kind |-> MEMORY_ACCESS_WRITE],
      [name |-> "memory_read_halfword",    n |-> 2, mask |-> 1, kind |-> MEMORY_ACCESS_READ],
      [name |-> "memory_write_halfword",   n |-> 2, mask |-> 1, kind |-> MEMORY_ACCESS_WRITE],
      [name |-> "memory_read_word",        n |-> 4, mask |-> 3, kind |-> MEMORY_ACCESS_READ],
      [name |-> "memory_write_word",       n |-> 4, mask |-> 3, kind |-> MEMORY_ACCESS_WRITE],
      [name |-> "memory_read_doubleword",  n |-> 8, mask |-> 7, kind |-> MEMORY_ACCESS_READ],
      [name |-> "memory_write_doubleword", n |-> 8, mask |-> 7, kind |-> MEMORY_ACCESS_WRITE] }

\* a typed accessor that calls check_memory_access before testing alignment
typed_access_check_RangeFirst(op, region, addr) ==
    IF check_memory_access(region, addr, op.n, op.kind) # PHYMUTI_SUCCESS
    THEN check_memory_access(region, addr, op.n, op.kind)
    ELSE IF AndMask(addr, op.mask) # 0
    THEN PHYMUTI_ERROR_MEMORY_ALIGNMENT
    ELSE PHYMUTI_SUCCESS

\* return code of a typed accessor: alignment check, then check_memory_access
typed_access_check(op, region, addr) ==
    IF AndMask(addr, op.mask) # 0
    THEN PHYMUTI_ERROR_MEMORY_ALIGNMENT
    ELSE check_memory_access(region, addr, op.n, op.kind)

\* return code of memory_read_buffer / memory_write_buffer
buffer_access_check(region, addr, size, kind) ==
    IF size = 0
    THEN PHYMUTI_ERROR_INVALID_PARAM
    ELSE check_memory_access(region, addr, size, kind)

\* a store that lays the bytes of the value out most significant first
StoreLE_BigEndian(data, offset, n, value) ==
    [ k \in DOMAIN data |->
        IF k >= offset /\ k < offset + n
        THEN (value \div (ByteMod ^ (n - 1 - (k - offset)))) % ByteMod
        ELSE data[k] ]

\* little-endian store of an n-byte value at data + offset
StoreLE(data, offset, n, value) ==
    [ k \in DOMAIN data |->
        IF k >= offset /\ k < offset + n
        THEN (value \div (ByteMod ^ (k - offset))) % ByteMod
        ELSE data[k] ]

RECURSIVE LoadLE(_, _, _)
\* little-endian load of an n-byte value from data + offset
LoadLE(data, offset, n) ==
    IF n = 0 THEN 0
    ELSE data[offset] + ByteMod * LoadLE(data, offset + 1, n - 1)

\* the bytes [offset, offset + n) lie inside the calloc'ed backing
InBacking(region, offset, n) == offset >= 0 /\ offset + n <= region.size

\* what a load outside the backing yields is not determined by the program
INDETERMINATE == -1

(* ------------------------------ monitor -------------------------------- *)
Context(region, addr, size, value, access_type) ==
    [region |-> region, address |-> addr, size |-> size, value |-> value,
     access_type |-> access_type]

\* a type switch in which an ACCESS watchpoint matches every access type
KindMatch_AccessAny(wp, ctx) ==
    CASE wp.type = WATCHPOINT_READ -> ctx.access_type = MEMORY_ACCESS_READ
      [] wp.type = WATCHPOINT_WRITE -> ctx.access_type = MEMORY_ACCESS_WRITE
      [] wp.type = WATCHPOINT_ACCESS -> TRUE
      [] wp.type = WATCHPOINT_VALUE_WRITE ->
             ctx.access_type = MEMORY_ACCESS_WRITE /\ ctx.value = wp.wpvalue
      [] OTHER -> FALSE

\* the type switch of the walk: `match`
KindMatch(wp, ctx) ==
    CASE wp.type = WATCHPOINT_READ -> ctx.access_type = MEMORY_ACCESS_READ
      [] wp.type = WATCHPOINT_WRITE -> ctx.access_type = MEMORY_ACCESS_WRITE
      [] wp.type = WATCHPOINT_ACCESS ->
             ctx.access_type \in {MEMORY_ACCESS_READ, MEMORY_ACCESS_WRITE}
      [] wp.type = WATCHPOINT_VALUE_WRITE ->
             ctx.access_type = MEMORY_ACCESS_WRITE /\ ctx.value = wp.wpvalue
      [] OTHER -> FALSE

\* the three "skip this watchpoint" tests and the type switch of the walk
WpSelected(wp, ctx) ==
    /\ wp.enabled
    /\ wp.region = ctx.region
    /\ ~ (\/ AddU64(ctx.address, ctx.size) <= wp.addr
          \/ ctx.address >= AddU64(wp.addr, wp.size))
    /\ KindMatch(wp, ctx)

\* an inner loop that copies the bound ids from the last to the first
AppendMatches_LastFirst(acc, wp, ctx) ==
    LET room == MAX_MATCHES - Len(acc)
        take == IF Len(wp.action_ids) < room THEN Len(wp.action_ids) ELSE room
    IN acc \o [ k \in 1 .. take |->
                  [action_id |-> wp.action_ids[Len(wp.action_ids) + 1 - k],
                   context |-> ctx, wp |-> wp.id] ]

\* the inner for loop: copy bound ids while match_count < MAX_MATCHES; each
\* entry also records the watchpoint it comes from (not program state)
AppendMatches(acc, wp, ctx) ==
    LET room == MAX_MATCHES - Len(acc)
        take == IF Len(wp.action_ids) < room THEN Len(wp.action_ids) ELSE room
    IN acc \o [ k \in 1 .. take |->
                  [action_id |-> wp.action_ids[k], context |-> ctx, wp |-> wp.id] ]

RECURSIVE Collect(_, _, _)
\* the walk over watchpoint_list under watchpoint_mutex
Collect(wps, ctx, acc) ==
    IF wps = <<>> THEN acc
    ELSE Collect(Tail(wps), ctx,
                 IF WpSelected(Head(wps), ctx)
                 THEN AppendMatches(acc, Head(wps), ctx)
                 ELSE acc)

NoNotify == [valid |-> FALSE, ctx |-> <<>>, seen |-> <<>>, executed |-> <<>>]

\* a dispatch that also takes the actions of every enabled rule with a
\* condition
NotifyFrame_WithRules(ctx, matched, caller) ==
    [op |-> "notify", pc |-> "exec",
     v |-> [ctx |-> ctx,
            matched |-> matched \o
                [ k \in 1 .. (IF /\ rule_list # <<>>
                                 /\ rule_list[1].enabled
                                 /\ rule_list[1].condition
                              THEN Len(rule_list[1].action_ids) ELSE 0) |->
                    [action_id |-> rule_list[1].action_ids[k], context |-> ctx,
                     wp |-> MONITOR_INVALID_ID] ],
            i |-> 0, seen |-> watchpoint_list, executed |-> <<>>,
            caller |-> caller]]

NotifyFrame(ctx, matched, caller) ==
    [op |-> "notify", pc |-> "exec",
     v |-> [ctx |-> ctx, matched |-> matched, i |-> 0,
            seen |-> watchpoint_list, executed |-> <<>>, caller |-> caller]]

\* a monitor_notify_memory_access that returns without walking the list
Notify_NoWalk(t, ctx, caller) ==
    /\ last' = caller
    /\ UNCHANGED <<mutex, stack, last_notify, nnotify>>

\* a monitor_notify_memory_access that does not dispatch for an access made
\* while the thread is inside a dispatch
Notify_NoNesting(t, ctx, caller) ==
    LET matched == IF \E i \in 1 .. Len(stack[t]) : stack[t][i].op = "notify"
                   THEN <<>>
                   ELSE Collect(watchpoint_list, ctx, <<>>)
    IN /\ CanLock("watchpoint_mutex", t)
       /\ mutex' = Unlock(Lock(mutex, "watchpoint_mutex", t), "watchpoint_mutex", t)
       /\ nnotify' = nnotify + 1
       /\ IF matched = <<>>
          THEN /\ stack' = stack
               /\ last' = caller
               /\ last_notify' = [valid |-> TRUE, ctx |-> ctx,
                                  seen |-> watchpoint_list, executed |-> <<>>]
          ELSE /\ stack' = Push(t, [op |-> "notify", pc |-> "exec",
                                    v |-> [ctx |-> ctx, matched |-> matched, i |-> 0,
                                           seen |-> watchpoint_list,
                                           executed |-> <<>>, caller |-> caller]])
               /\ UNCHANGED <<last, last_notify>>

\* monitor_notify_memory_access up to the end of the walk, called by thread t
\* on behalf of the API call that will return `caller`: with no match the
\* call returns at once, otherwise the dispatch loop is entered
Notify(t, ctx, caller) ==
    LET matched == Collect(watchpoint_list, ctx, <<>>)
    IN /\ CanLock("watchpoint_mutex", t)
       /\ mutex' = Unlock(Lock(mutex, "watchpoint_mutex", t), "watchpoint_mutex", t)
       /\ nnotify' = nnotify + 1
       /\ IF matched = <<>>
          THEN /\ stack' = stack
               /\ last' = caller
               /\ last_notify' = [valid |-> TRUE, ctx |-> ctx,
                                  seen |-> watchpoint_list, executed |-> <<>>]
          ELSE /\ stack' = Push(t, NotifyFrame(ctx, matched, caller))
               /\ UNCHANGED <<last, last_notify>>

\* a parameter test without the upper limit on size
AddRefused_NoUpperLimit(region, size) == region = NULL \/ size = 0

\* the parameter test of monitor_add_watchpoint
AddRefused(region, size) == region = NULL \/ size = 0 \/ size > 8

FindWatchpoint(id) == IndexOf(watchpoint_list, LAMBDA w : w.id = id)

\* thread t is inside the dispatch loop of a monitor_notify_memory_access
InDispatch(t) == \E i \in 1 .. Len(stack[t]) : stack[t][i].op = "notify"

\* the field `during` records whether the call was made from inside a
\* dispatch, `was_disabled` whether monitor_disable_watchpoint has ever
\* been applied and `rebound` the bound ids that monitor_bind_action was
\* called with again (none of the three is program state)
monitor_add_watchpoint(t, region, addr, size, type, wpvalue) ==
    /\ InUserCode(t)
    /\ IF AddRefused(region, size)
       THEN /\ last' = Returned("monitor_add_watchpoint",
                                <<region, addr, size, type, wpvalue>>, MONITOR_INVALID_ID)
            /\ UNCHANGED <<monVars, mutex>>
       ELSE /\ CanLock("watchpoint_mutex", t)
            /\ mutex' = Unlock(Lock(mutex, "watchpoint_mutex", t), "watchpoint_mutex", t)
            /\ watchpoint_list' =
                  << [id |-> next_watchpoint_id, region |-> region, addr |-> addr,
                      size |-> size, type |-> type, enabled |-> TRUE,
                      wpvalue |-> wpvalue, action_ids |-> <<>>,
                      during |-> InDispatch(t), was_disabled |-> FALSE,
                      rebound |-> {}] >>
                  \o watchpoint_list
            /\ next_watchpoint_id' = ToU32(next_watchpoint_id + 1)
            /\ last' = Returned("monitor_add_watchpoint",
                                <<region, addr, size, type, wpvalue>>, next_watchpoint_id)
    /\ UNCHANGED <<devVars, memVars, actVars, ruleVars, stack, last_notify, nnotify>>

monitor_remove_watchpoint(t, id) ==
    /\ InUserCode(t)
    /\ IF id = MONITOR_INVALID_ID
       THEN /\ last' = Returned("monitor_remove_watchpoint", <<id>>, PHYMUTI_ERROR_INVALID_PARAM)
            /\ UNCHANGED <<monVars, mutex>>
       ELSE /\ CanLock("watchpoint_mutex", t)
            /\ mutex' = Unlock(Lock(mutex, "watchpoint_mutex", t), "watchpoint_mutex", t)
            /\ IF FindWatchpoint(id) # 0
               THEN /\ watchpoint_list' = RemoveAt(watchpoint_list, FindWatchpoint(id))
                    /\ last' = Returned("monitor_remove_watchpoint", <<id>>, PHYMUTI_SUCCESS)
               ELSE /\ watchpoint_list' = watchpoint_list
                    /\ last' = Returned("monitor_remove_watchpoint", <<id>>,
                                        PHYMUTI_ERROR_WATCHPOINT_NOT_FOUND)
            /\ UNCHANGED next_watchpoint_id
    /\ UNCHANGED <<devVars, memVars, actVars, ruleVars, stack, last_notify, nnotify>>

\* monitor_enable_watchpoint (on = TRUE) and monitor_disable_watchpoint
SetEnabled(t, name, id, on) ==
    /\ InUserCode(t)
    /\ CanLock("watchpoint_mutex", t)
    /\ mutex' = Unlock(Lock(mutex, "watchpoint_mutex", t), "watchpoint_mutex", t)
    /\ IF FindWatchpoint(id) = 0
       THEN /\ last' = Returned(name, <<id>>, PHYMUTI_ERROR_WATCHPOINT_NOT_FOUND)
            /\ UNCHANGED watchpoint_list
       ELSE /\ watchpoint_list' =
                  [watchpoint_list EXCEPT
                      ![FindWatchpoint(id)].enabled = on,
                      ![FindWatchpoint(id)].was_disabled = (@ \/ ~ on)]
            /\ last' = Returned(name, <<id>>, PHYMUTI_SUCCESS)
    /\ UNCHANGED <<devVars, memVars, actVars, ruleVars, next_watchpoint_id,
                   stack, last_notify, nnotify>>

monitor_enable_watchpoint(t, id) == SetEnabled(t, "monitor_enable_watchpoint", id, TRUE)

monitor_disable_watchpoint(t, id) == SetEnabled(t, "monitor_disable_watchpoint", id, FALSE)

\* on success the returned record also holds the action list as it was before
\* the call (not program state)
monitor_bind_action(t, id, action_id) ==
    /\ InUserCode(t)
    /\ CanLock("watchpoint_mutex", t)
    /\ mutex' = Unlock(Lock(mutex, "watchpoint_mutex", t), "watchpoint_mutex", t)
    /\ LET k == FindWatchpoint(id)
       IN IF k = 0
          THEN /\ last' = Returned("monitor_bind_action", <<id, action_id>>,
                                   PHYMUTI_ERROR_WATCHPOINT_NOT_FOUND)
               /\ UNCHANGED watchpoint_list
          ELSE /\ watchpoint_list' =
                     IF action_id \in SeqToSet(watchpoint_list[k].action_ids)
                     THEN [watchpoint_list EXCEPT ![k].rebound = @ \cup {action_id}]
                     ELSE [watchpoint_list EXCEPT ![k].action_ids = Append(@, action_id)]
               /\ last' = [op |-> "monitor_bind_action", in |-> <<id, action_id>>,
                           out |-> PHYMUTI_SUCCESS,
                           before |-> watchpoint_list[k].action_ids]
    /\ UNCHANGED <<devVars, memVars, actVars, ruleVars, next_watchpoint_id,
                   stack, last_notify, nnotify>>

\* on success the returned record also says whether the call before it was a
\* successful monitor_bind_action of the same pair, and the action list as it
\* was before that bind (not program state)
monitor_unbind_action(t, id, action_id) ==
    /\ InUserCode(t)
    /\ CanLock("watchpoint_mutex", t)
    /\ mutex' = Unlock(Lock(mutex, "watchpoint_mutex", t), "watchpoint_mutex", t)
    /\ LET k == FindWatchpoint(id)
       IN IF k = 0
          THEN /\ last' = Returned("monitor_unbind_action", <<id, action_id>>,
                                   PHYMUTI_ERROR_WATCHPOINT_NOT_FOUND)
               /\ UNCHANGED watchpoint_list
          ELSE LET ids == watchpoint_list[k].action_ids
                   j == IndexOf(ids, LAMBDA a : a = action_id)
               IN IF j = 0
                  THEN /\ last' = Returned("monitor_unbind_action", <<id, action_id>>,
                                           PHYMUTI_ERROR_NOT_FOUND)
                       /\ UNCHANGED watchpoint_list
                  ELSE /\ watchpoint_list' =
                             [watchpoint_list EXCEPT ![k].action_ids = RemoveAt(ids, j),
                                                     ![k].rebound = @ \ {action_id}]
                       /\ last' = [op |-> "monitor_unbind_action",
                                   in |-> <<id, action_id>>, out |-> PHYMUTI_SUCCESS,
                                   after_bind |-> (/\ last.op = "monitor_bind_action"
                                                   /\ last.in = <<id, action_id>>
                                                   /\ last.out = PHYMUTI_SUCCESS),
                                   before |-> IF /\ last.op = "monitor_bind_action"
                                                 /\ last.in = <<id, action_id>>
                                                 /\ last.out = PHYMUTI_SUCCESS
                                              THEN last.before ELSE ids]
    /\ UNCHANGED <<devVars, memVars, actVars, ruleVars, next_watchpoint_id,
                   stack, last_notify, nnotify>>

\* a direct call of the public monitor_notify_memory_access
monitor_notify_memory_access(t, region, addr, size, value, access_type) ==
    /\ CanCall(t)
    /\ IF region = NULL
       THEN /\ last' = Returned("monitor_notify_memory_access",
                                <<region, addr, size, value, access_type>>,
                                PHYMUTI_ERROR_INVALID_PARAM)
            /\ UNCHANGED <<mutex, stack, last_notify, nnotify>>
       ELSE Notify(t, Context(region, addr, size, value, access_type),
                   Returned("monitor_notify_memory_access",
                            <<region, addr, size, value, access_type>>, PHYMUTI_SUCCESS))
    /\ UNCHANGED <<devVars, memVars, monVars, actVars, ruleVars>>

(* --------------------------- action manager ---------------------------- *)
FindAction(id) == IndexOf(action_list, LAMBDA a : a.id = id)

\* action_create_callback (type CALLBACK; a NULL callback is refused),
\* action_create_script and action_create_command (a NULL string is refused)
action_create(t, type, payload) ==
    /\ InUserCode(t)
    /\ Len(action_list) < MaxActions
    /\ IF payload = NULL
       THEN /\ last' = Returned("action_create", <<type, payload>>, ACTION_INVALID_ID)
            /\ UNCHANGED <<actVars, mutex>>
       ELSE /\ CanLock("action_mutex", t)
            /\ mutex' = Unlock(Lock(mutex, "action_mutex", t), "action_mutex", t)
            /\ action_list' = << [id |-> next_action_id, type |-> type] >> \o action_list
            /\ next_action_id' = ToU32(next_action_id + 1)
            /\ last' = Returned("action_create", <<type, payload>>, next_action_id)
    /\ UNCHANGED <<devVars, memVars, monVars, ruleVars, stack, last_notify, nnotify>>

action_destroy(t, id) ==
    /\ InUserCode(t)
    /\ IF id = ACTION_INVALID_ID
       THEN /\ last' = Returned("action_destroy", <<id>>, PHYMUTI_ERROR_INVALID_PARAM)
            /\ UNCHANGED <<actVars, mutex>>
       ELSE /\ CanLock("action_mutex", t)
            /\ mutex' = Unlock(Lock(mutex, "action_mutex", t), "action_mutex", t)
            /\ IF FindAction(id) # 0
               THEN /\ action_list' = RemoveAt(action_list, FindAction(id))
                    /\ last' = Returned("action_destroy", <<id>>, PHYMUTI_SUCCESS)
               ELSE /\ action_list' = action_list
                    /\ last' = Returned("action_destroy", <<id>>,
                                        PHYMUTI_ERROR_ACTION_NOT_FOUND)
            /\ UNCHANGED next_action_id
    /\ UNCHANGED <<devVars, memVars, monVars, ruleVars, stack, last_notify, nnotify>>

\* an action_execute that enters a callback without looking the action up
ExecOutcome_NoLookup(id) ==
    [cb |-> id # ACTION_INVALID_ID, rets |-> {}]

\* action_execute up to the point where it either returns or has released
\* action_mutex and entered the callback: cb says which, rets are the codes
\* it can return without running a callback
ExecOutcome(id) ==
    IF id = ACTION_INVALID_ID
    THEN [cb |-> FALSE, rets |-> {PHYMUTI_ERROR_INVALID_PARAM}]
    ELSE IF FindAction(id) = 0
    THEN [cb |-> FALSE, rets |-> {PHYMUTI_ERROR_ACTION_NOT_FOUND}]
    ELSE IF action_list[FindAction(id)].type = ACTION_TYPE_CALLBACK
    THEN [cb |-> TRUE, rets |-> {}]
    ELSE [cb |-> FALSE, rets |-> {PHYMUTI_SUCCESS, PHYMUTI_ERROR_ACTION_EXECUTE_FAILED}]

\* a collected entry that has been handed to action_execute; `ran` records
\* whether the call entered a callback and `ret` the code action_execute
\* returned, once it is known (neither is program state; the code of a
\* script or command is not recorded)
Called(m, o) ==
    [ran |-> o.cb,
     ret |-> IF o.cb \/ Cardinality(o.rets) # 1
             THEN PHYMUTI_SUCCESS
             ELSE CHOOSE r \in o.rets : TRUE] @@ m

\* the frame of a dispatch loop after its last action_execute has returned r
SetRet(f, r) == [f EXCEPT !.v.executed[Len(f.v.executed)].ret = r]

ExecFrame(id, ctx, direct) ==
    [op |-> "action_execute", pc |-> "user",
     v |-> [id |-> id, ctx |-> ctx, direct |-> direct]]

\* codes a user callback may return
CallbackResults == {PHYMUTI_SUCCESS, PHYMUTI_ERROR_INVALID_PARAM}

\* an action_execute that keeps action_mutex while the callback runs
action_execute_HoldsMutex(t, id, ctx) ==
    /\ CanCall(t)
    /\ CanLock("action_mutex", t)
    /\ IF ExecOutcome(id).cb
       THEN /\ mutex' = Lock(mutex, "action_mutex", t)
            /\ stack' = Push(t, ExecFrame(id, ctx, TRUE))
            /\ UNCHANGED last
       ELSE /\ \E r \in ExecOutcome(id).rets :
                 last' = Returned("action_execute", <<id>>, r)
            /\ UNCHANGED <<stack, mutex>>
    /\ UNCHANGED <<devVars, memVars, monVars, actVars, ruleVars, last_notify, nnotify>>

\* a direct call of the public action_execute from user code; the lookup and
\* the reads of the record that follow the unlock are one step here, and are
\* separate steps in action_execute_lookup and action_execute_invoke
action_execute(t, id, ctx) ==
    /\ CanCall(t)
    /\ IF id # ACTION_INVALID_ID
       THEN /\ CanLock("action_mutex", t)
            /\ mutex' = Unlock(Lock(mutex, "action_mutex", t), "action_mutex", t)
       ELSE UNCHANGED mutex
    /\ IF ExecOutcome(id).cb
       THEN /\ stack' = Push(t, ExecFrame(id, ctx, TRUE))
            /\ UNCHANGED last
       ELSE /\ \E r \in ExecOutcome(id).rets :
                 last' = Returned("action_execute", <<id>>, r)
            /\ UNCHANGED stack
    /\ UNCHANGED <<devVars, memVars, monVars, actVars, ruleVars, last_notify, nnotify>>

\* the callback of an action_execute returns r: the mutex is taken again
\* and released, and r is handed to the caller
ActionCallbackReturn(t, r) ==
    /\ stack[t] # <<>>
    /\ Head(stack[t]).op = "action_execute"
    /\ Head(stack[t]).pc = "user"
    /\ CanLock("action_mutex", t)
    /\ mutex' = Unlock(Lock(mutex, "action_mutex", t), "action_mutex", t)
    /\ stack' = [stack EXCEPT ![t] =
                    IF Head(stack[t]).v.direct
                    THEN Tail(@)
                    ELSE <<SetRet(@[2], r)>> \o Tail(Tail(@))]
    /\ last' = IF Head(stack[t]).v.direct
               THEN Returned("action_execute", <<Head(stack[t]).v.id>>, r)
               ELSE last
    /\ UNCHANGED <<devVars, memVars, monVars, actVars, ruleVars, last_notify, nnotify>>

(* ------------------------- dispatch of a notify ------------------------ *)
\* a dispatch loop that looks the watchpoint of the next entry up again and
\* passes the entry over when the watchpoint is gone or disabled or no longer
\* has the action bound
DispatchNext_Recheck(t) ==
    /\ stack[t] # <<>>
    /\ Head(stack[t]).op = "notify"
    /\ Head(stack[t]).v.i < Len(Head(stack[t]).v.matched)
    /\ LET f == Head(stack[t])
           m == f.v.matched[f.v.i + 1]
           k == FindWatchpoint(m.wp)
           live == /\ k # 0
                   /\ watchpoint_list[k].enabled
                   /\ m.action_id \in SeqToSet(watchpoint_list[k].action_ids)
           o == IF live THEN ExecOutcome(m.action_id)
                ELSE [cb |-> FALSE, rets |-> {PHYMUTI_SUCCESS}]
           g == [f EXCEPT !.v.i = @ + 1, !.v.executed = Append(@, Called(m, o))]
       IN /\ CanLock("action_mutex", t)
          /\ mutex' = Unlock(Lock(mutex, "action_mutex", t), "action_mutex", t)
          /\ stack' = [stack EXCEPT ![t] =
                          IF o.cb
                          THEN <<ExecFrame(m.action_id, m.context, FALSE), g>> \o Tail(@)
                          ELSE <<g>> \o Tail(@)]
    /\ UNCHANGED <<devVars, memVars, monVars, actVars, ruleVars, last, last_notify, nnotify>>

\* one iteration of the loop over matched_actions: action_execute is called
\* with the next collected id and its context; its return code is ignored
DispatchNext(t) ==
    /\ stack[t] # <<>>
    /\ Head(stack[t]).op = "notify"
    /\ Head(stack[t]).v.i < Len(Head(stack[t]).v.matched)
    /\ LET f == Head(stack[t])
           m == f.v.matched[f.v.i + 1]
           g == [f EXCEPT !.v.i = @ + 1,
                          !.v.executed = Append(@, Called(m, ExecOutcome(m.action_id)))]
       IN /\ IF m.action_id # ACTION_INVALID_ID
             THEN /\ CanLock("action_mutex", t)
                  /\ mutex' = Unlock(Lock(mutex, "action_mutex", t), "action_mutex", t)
             ELSE UNCHANGED mutex
          /\ stack' = [stack EXCEPT ![t] =
                          IF ExecOutcome(m.action_id).cb
                          THEN <<ExecFrame(m.action_id, m.context, FALSE), g>> \o Tail(@)
                          ELSE <<g>> \o Tail(@)]
    /\ UNCHANGED <<devVars, memVars, monVars, actVars, ruleVars, last, last_notify, nnotify>>

\* the loop is over: monitor_notify_memory_access returns PHYMUTI_SUCCESS and
\* so does the accessor that called it
NotifyReturn(t) ==
    /\ stack[t] # <<>>
    /\ Head(stack[t]).op = "notify"
    /\ Head(stack[t]).v.i = Len(Head(stack[t]).v.matched)
    /\ stack' = [stack EXCEPT ![t] = Tail(@)]
    /\ last' = Head(stack[t]).v.caller
    /\ last_notify' = [valid |-> TRUE, ctx |-> Head(stack[t]).v.ctx,
                       seen |-> Head(stack[t]).v.seen,
                       executed |-> Head(stack[t]).v.executed]
    /\ UNCHANGED <<devVars, memVars, monVars, actVars, ruleVars, mutex, nnotify>>

(* ------------------------ memory manager: calls ------------------------ *)
memory_region_create(t, device, name, base_addr, size, flags) ==
    /\ InUserCode(t)
    /\ IF name = NULL_NAME \/ size = 0
       THEN /\ last' = Returned("memory_region_create",
                                <<device, name, base_addr, size, flags>>, NULL)
            /\ UNCHANGED <<memory_region_list, mutex>>
       ELSE /\ Len(memory_region_list) < MaxRegions
            /\ CanLock("memory_region_mutex", t)
            /\ mutex' = Unlock(Lock(mutex, "memory_region_mutex", t),
                               "memory_region_mutex", t)
            /\ \E p \in RegionPtrs \ LiveRegionPtrs :
                 /\ memory_region_list' =
                       << [ptr |-> p, name |-> name, device |-> device,
                           base_addr |-> base_addr, size |-> size, flags |-> flags,
                           data |-> [k \in 0 .. (size - 1) |-> 0]] >>
                       \o memory_region_list
                 /\ last' = Returned("memory_region_create",
                                     <<device, name, base_addr, size, flags>>, p)
    /\ UNCHANGED <<devVars, monVars, actVars, ruleVars, stack, last_notify, nnotify,
                   heap_corrupted, naccess>>

\* memory_region_find: the first region of memory_region_list with this name
\* and, when device is not NULL, this device; NULL when there is none
memory_region_find(t, device, name) ==
    /\ InUserCode(t)
    /\ IF name = NULL_NAME
       THEN /\ last' = Returned("memory_region_find", <<device, name>>, NULL)
            /\ UNCHANGED mutex
       ELSE /\ CanLock("memory_region_mutex", t)
            /\ mutex' = Unlock(Lock(mutex, "memory_region_mutex", t),
                               "memory_region_mutex", t)
            /\ LET k == IndexOf(memory_region_list,
                                LAMBDA r : /\ device = NULL \/ r.device = device
                                           /\ r.name = name)
               IN last' = Returned("memory_region_find", <<device, name>>,
                                   IF k = 0 THEN NULL ELSE memory_region_list[k].ptr)
    /\ UNCHANGED <<devVars, memVars, monVars, actVars, ruleVars, stack, last_notify,
                   nnotify>>

memory_region_destroy(t, region) ==
    /\ InUserCode(t)
    /\ IF region = NULL
       THEN /\ last' = Returned("memory_region_destroy", <<region>>,
                                PHYMUTI_ERROR_INVALID_PARAM)
            /\ UNCHANGED <<memory_region_list, mutex>>
       ELSE /\ CanLock("memory_region_mutex", t)
            /\ mutex' = Unlock(Lock(mutex, "memory_region_mutex", t),
                               "memory_region_mutex", t)
            /\ IF region \in LiveRegionPtrs
               THEN /\ memory_region_list' =
                          RemoveAt(memory_region_list,
                                   IndexOf(memory_region_list, LAMBDA r : r.ptr = region))
                    /\ last' = Returned("memory_region_destroy", <<region>>,
                                        PHYMUTI_SUCCESS)
               ELSE /\ memory_region_list' = memory_region_list
                    /\ last' = Returned("memory_region_destroy", <<region>>,
                                        PHYMUTI_ERROR_NOT_FOUND)
    /\ UNCHANGED <<devVars, monVars, actVars, ruleVars, stack, last_notify, nnotify,
                   heap_corrupted, naccess>>

\* what the caller of an accessor passed, with the region's geometry
AccessArgs(reg, addr, n, kind, value) ==
    [region |-> reg.ptr, base_addr |-> reg.base_addr, size |-> reg.size,
     flags |-> reg.flags, addr |-> addr, n |-> n, kind |-> kind, value |-> value]

\* memory_read_byte .. memory_write_doubleword on a live region: checks,
\* then the load or store at data + (addr - base_addr), then the broadcast
memory_typed_access(t, op, region, addr, value) ==
    /\ CanCall(t)
    /\ region \in LiveRegionPtrs
    /\ LET reg == RegionAt(region)
           k == IndexOf(memory_region_list, LAMBDA r : r.ptr = region)
           rc == typed_access_check(op, reg, addr)
           offset == addr - reg.base_addr
           inside == InBacking(reg, offset, op.n)
           v == IF op.kind = MEMORY_ACCESS_WRITE THEN value
                ELSE IF inside THEN LoadLE(reg.data, offset, op.n)
                ELSE INDETERMINATE
       IN IF rc # PHYMUTI_SUCCESS
          THEN /\ last' = Returned(op.name,
                                   AccessArgs(reg, addr, op.n, op.kind, value), rc)
               /\ UNCHANGED <<memory_region_list, heap_corrupted, mutex, stack,
                              last_notify, nnotify>>
          ELSE /\ memory_region_list' =
                     IF op.kind = MEMORY_ACCESS_WRITE
                     THEN [memory_region_list EXCEPT
                              ![k].data = StoreLE(@, offset, op.n, value)]
                     ELSE memory_region_list
               /\ heap_corrupted' =
                     (heap_corrupted \/ (op.kind = MEMORY_ACCESS_WRITE /\ ~ inside))
               /\ Notify(t, Context(region, addr, op.n, v, op.kind),
                         Returned(op.name, AccessArgs(reg, addr, op.n, op.kind, v),
                                  PHYMUTI_SUCCESS))
    /\ naccess' = naccess + 1
    /\ UNCHANGED <<devVars, monVars, actVars, ruleVars>>

\* memcpy(region->data + offset, buffer, size)
StoreBytes(data, offset, bytes) ==
    [ k \in DOMAIN data |->
        IF k >= offset /\ k < offset + Len(bytes)
        THEN bytes[k - offset + 1]
        ELSE data[k] ]

\* memcpy(buffer, region->data + offset, size)
LoadBytes(data, offset, size) == [ k \in 1 .. size |-> data[offset + k - 1] ]

\* memory_read_buffer into a buffer of `size` bytes
memory_read_buffer(t, region, addr, size) ==
    /\ CanCall(t)
    /\ region \in LiveRegionPtrs
    /\ LET reg == RegionAt(region)
           rc == buffer_access_check(reg, addr, size, MEMORY_ACCESS_READ)
           offset == addr - reg.base_addr
           got == IF InBacking(reg, offset, size)
                  THEN LoadBytes(reg.data, offset, size) ELSE INDETERMINATE
       IN IF rc # PHYMUTI_SUCCESS
          THEN /\ last' = Returned("memory_read_buffer",
                                   AccessArgs(reg, addr, size, MEMORY_ACCESS_READ, <<>>), rc)
               /\ UNCHANGED <<mutex, stack, last_notify, nnotify>>
          ELSE Notify(t, Context(region, addr, ToU32(size), 0, MEMORY_ACCESS_READ),
                      Returned("memory_read_buffer",
                               AccessArgs(reg, addr, size, MEMORY_ACCESS_READ, got),
                               PHYMUTI_SUCCESS))
    /\ naccess' = naccess + 1
    /\ UNCHANGED <<devVars, memory_region_list, heap_corrupted, monVars, actVars,
                   ruleVars>>

\* memory_write_buffer of the bytes `buffer` (size = Len(buffer))
\* a memory_write_buffer that copies before it checks the range and the
\* permission
memory_write_buffer_CopyFirst(t, region, addr, buffer) ==
    /\ CanCall(t)
    /\ region \in LiveRegionPtrs
    /\ LET reg == RegionAt(region)
           k == IndexOf(memory_region_list, LAMBDA r : r.ptr = region)
           size == Len(buffer)
           rc == buffer_access_check(reg, addr, size, MEMORY_ACCESS_WRITE)
           offset == addr - reg.base_addr
       IN /\ memory_region_list' =
                [memory_region_list EXCEPT ![k].data = StoreBytes(@, offset, buffer)]
          /\ heap_corrupted' = (heap_corrupted \/ ~ InBacking(reg, offset, size))
          /\ IF rc # PHYMUTI_SUCCESS
             THEN /\ last' = Returned("memory_write_buffer",
                                      AccessArgs(reg, addr, size, MEMORY_ACCESS_WRITE, buffer), rc)
                  /\ UNCHANGED <<mutex, stack, last_notify, nnotify>>
             ELSE Notify(t, Context(region, addr, ToU32(size), 0, MEMORY_ACCESS_WRITE),
                         Returned("memory_write_buffer",
                                  AccessArgs(reg, addr, size, MEMORY_ACCESS_WRITE, buffer),
                                  PHYMUTI_SUCCESS))
    /\ naccess' = naccess + 1
    /\ UNCHANGED <<devVars, monVars, actVars, ruleVars>>

memory_write_buffer(t, region, addr, buffer) ==
    /\ CanCall(t)
    /\ region \in LiveRegionPtrs
    /\ LET reg == RegionAt(region)
           k == IndexOf(memory_region_list, LAMBDA r : r.ptr = region)
           size == Len(buffer)
           rc == buffer_access_check(reg, addr, size, MEMORY_ACCESS_WRITE)
           offset == addr - reg.base_addr
       IN IF rc # PHYMUTI_SUCCESS
          THEN /\ last' = Returned("memory_write_buffer",
                                   AccessArgs(reg, addr, size, MEMORY_ACCESS_WRITE, buffer), rc)
               /\ UNCHANGED <<memory_region_list, heap_corrupted, mutex, stack,
                              last_notify, nnotify>>
          ELSE /\ memory_region_list' =
                     [memory_region_list EXCEPT ![k].data = StoreBytes(@, offset, buffer)]
               /\ heap_corrupted' = (heap_corrupted \/ ~ InBacking(reg, offset, size))
               /\ Notify(t, Context(region, addr, ToU32(size), 0, MEMORY_ACCESS_WRITE),
                         Returned("memory_write_buffer",
                                  AccessArgs(reg, addr, size, MEMORY_ACCESS_WRITE, buffer),
                                  PHYMUTI_SUCCESS))
    /\ naccess' = naccess + 1
    /\ UNCHANGED <<devVars, monVars, actVars, ruleVars>>

(* --------------------------- device manager ---------------------------- *)
TypePtrs == 1 .. MaxTypes

DevPtrs == 1 .. MaxDevices

HookNames == {"create", "destroy", "reset", "save_state", "load_state", "ioctl"}

\* a NULL device_ops_t pointer
NULL_OPS == {"(null)"}

LiveTypePtrs == { device_type_list[i].ptr : i \in 1 .. Len(device_type_list) }

ListedDevPtrs == { device_list[i].ptr : i \in 1 .. Len(device_list) }

\* device structs a device_create or device_destroy of thread t has in hand:
\* allocated and not yet linked, or unlinked and not yet freed
FrameDevs(t) ==
    { stack[t][i].v.dev.ptr :
        i \in { j \in 1 .. Len(stack[t]) :
                  stack[t][j].op \in {"device_create", "device_destroy"} } }

\* device structs that are allocated (malloc'ed and not yet freed)
AllocatedDevPtrs == ListedDevPtrs \cup UNION { FrameDevs(t) : t \in Threads }

\* find_device_type_locked
FindType(type_name) == IndexOf(device_type_list, LAMBDA ty : ty.name = type_name)

\* find_device_by_name_locked
FindDeviceByName(name) == IndexOf(device_list, LAMBDA d : d.name = name)

\* the outcomes of reading type->ops.<hook> through a device's type pointer:
\* the registered value, or anything when the class has been freed
HasHook(typeptr, hook) ==
    IF typeptr \in LiveTypePtrs
    THEN { hook \in device_type_list[IndexOf(device_type_list,
                                              LAMBDA ty : ty.ptr = typeptr)].ops }
    ELSE BOOLEAN

\* a registration that does not walk device_type_list first
device_type_register_NoLookup(t, type_name, ops, user_data) ==
    /\ InUserCode(t)
    /\ IF type_name = NULL_NAME \/ ops = NULL_OPS
       THEN /\ last' = Returned("device_type_register", <<type_name, ops, user_data>>,
                                PHYMUTI_ERROR_INVALID_PARAM)
            /\ UNCHANGED <<device_type_list, mutex>>
       ELSE /\ CanLock("device_mutex", t)
            /\ mutex' = Unlock(Lock(mutex, "device_mutex", t), "device_mutex", t)
            /\ \E p \in TypePtrs \ LiveTypePtrs :
                  /\ device_type_list' =
                        << [ptr |-> p, name |-> type_name, ops |-> ops,
                            user_data |-> user_data] >>
                        \o device_type_list
                  /\ last' = Returned("device_type_register",
                                      <<type_name, ops, user_data>>, PHYMUTI_SUCCESS)
    /\ UNCHANGED <<device_list, memVars, monVars, actVars, ruleVars, stack, last_notify, nnotify>>

\* device_type_register: the walk of device_type_list and the insertion are
\* made in one hold of device_mutex
device_type_register(t, type_name, ops, user_data) ==
    /\ InUserCode(t)
    /\ IF type_name = NULL_NAME \/ ops = NULL_OPS
       THEN /\ last' = Returned("device_type_register", <<type_name, ops, user_data>>,
                                PHYMUTI_ERROR_INVALID_PARAM)
            /\ UNCHANGED <<device_type_list, mutex>>
       ELSE /\ CanLock("device_mutex", t)
            /\ mutex' = Unlock(Lock(mutex, "device_mutex", t), "device_mutex", t)
            /\ IF FindType(type_name) # 0
               THEN /\ last' = Returned("device_type_register",
                                        <<type_name, ops, user_data>>,
                                        PHYMUTI_ERROR_ALREADY_EXISTS)
                    /\ UNCHANGED device_type_list
               ELSE \E p \in TypePtrs \ LiveTypePtrs :
                      /\ device_type_list' =
                            << [ptr |-> p, name |-> type_name, ops |-> ops,
                                user_data |-> user_data] >>
                            \o device_type_list
                      /\ last' = Returned("device_type_register",
                                          <<type_name, ops, user_data>>,
                                          PHYMUTI_SUCCESS)
    /\ UNCHANGED <<device_list, memVars, monVars, actVars, ruleVars, stack, last_notify, nnotify>>

device_type_unregister(t, type_name) ==
    /\ InUserCode(t)
    /\ IF type_name = NULL_NAME
       THEN /\ last' = Returned("device_type_unregister", <<type_name>>,
                                PHYMUTI_ERROR_INVALID_PARAM)
            /\ UNCHANGED <<device_type_list, mutex>>
       ELSE /\ CanLock("device_mutex", t)
            /\ mutex' = Unlock(Lock(mutex, "device_mutex", t), "device_mutex", t)
            /\ LET k == FindType(type_name)
               IN IF k = 0
                  THEN /\ last' = Returned("device_type_unregister", <<type_name>>,
                                           PHYMUTI_ERROR_DEVICE_TYPE_NOT_FOUND)
                       /\ UNCHANGED device_type_list
                  ELSE IF \E i \in 1 .. Len(device_list) :
                             device_list[i].type = device_type_list[k].ptr
                  THEN /\ last' = Returned("device_type_unregister", <<type_name>>,
                                           PHYMUTI_ERROR_BUSY)
                       /\ UNCHANGED device_type_list
                  ELSE /\ device_type_list' = RemoveAt(device_type_list, k)
                       /\ last' = Returned("device_type_unregister", <<type_name>>,
                                           PHYMUTI_SUCCESS)
    /\ UNCHANGED <<device_list, memVars, monVars, actVars, ruleVars, stack, last_notify, nnotify>>

\* device_create up to its return or up to the call of the class create hook,
\* which runs with device_mutex released and the device not yet linked
device_create(t, type_name, name) ==
    /\ CanCall(t)
    /\ IF type_name = NULL_NAME \/ name = NULL_NAME
       THEN /\ last' = Returned("device_create", <<type_name, name>>, NULL)
            /\ UNCHANGED <<device_list, mutex, stack>>
       ELSE /\ CanLock("device_mutex", t)
            /\ mutex' = Unlock(Lock(mutex, "device_mutex", t), "device_mutex", t)
            /\ IF FindType(type_name) = 0 \/ FindDeviceByName(name) # 0
               THEN /\ last' = Returned("device_create", <<type_name, name>>, NULL)
                    /\ UNCHANGED <<device_list, stack>>
               ELSE \E p \in DevPtrs \ AllocatedDevPtrs :
                      LET ty == device_type_list[FindType(type_name)]
                          dev == [ptr |-> p, name |-> name, type |-> ty.ptr]
                      IN IF "create" \in ty.ops
                         THEN /\ stack' = Push(t, [op |-> "device_create", pc |-> "user",
                                                   v |-> [dev |-> dev,
                                                          type_name |-> type_name]])
                              /\ UNCHANGED <<device_list, last>>
                         ELSE /\ device_list' = <<dev>> \o device_list
                              /\ last' = Returned("device_create", <<type_name, name>>, p)
                              /\ UNCHANGED stack
    /\ UNCHANGED <<device_type_list, memVars, monVars, actVars, ruleVars, last_notify, nnotify>>

\* a return from the create hook that links the device whatever the hook
\* returned
DeviceCreateReturn_LinkAlways(t, create_ret) ==
    /\ stack[t] # <<>>
    /\ Head(stack[t]).op = "device_create"
    /\ Head(stack[t]).pc = "user"
    /\ CanLock("device_mutex", t)
    /\ mutex' = Unlock(Lock(mutex, "device_mutex", t), "device_mutex", t)
    /\ stack' = [stack EXCEPT ![t] = Tail(@)]
    /\ LET f == Head(stack[t])
       IN /\ device_list' = <<f.v.dev>> \o device_list
          /\ last' = Returned("device_create",
                              <<f.v.type_name, f.v.dev.name, create_ret>>,
                              IF create_ret # PHYMUTI_SUCCESS THEN NULL ELSE f.v.dev.ptr)
    /\ UNCHANGED <<device_type_list, memVars, monVars, actVars, ruleVars, last_notify, nnotify>>

\* the create hook returns create_ret: device_mutex is taken again, the device
\* is freed on failure and linked into device_list otherwise; the record of
\* the call keeps create_ret next to the arguments
DeviceCreateReturn(t, create_ret) ==
    /\ stack[t] # <<>>
    /\ Head(stack[t]).op = "device_create"
    /\ Head(stack[t]).pc = "user"
    /\ CanLock("device_mutex", t)
    /\ mutex' = Unlock(Lock(mutex, "device_mutex", t), "device_mutex", t)
    /\ stack' = [stack EXCEPT ![t] = Tail(@)]
    /\ LET f == Head(stack[t])
       IN IF create_ret # PHYMUTI_SUCCESS
          THEN /\ last' = Returned("device_create",
                                   <<f.v.type_name, f.v.dev.name, create_ret>>, NULL)
               /\ UNCHANGED device_list
          ELSE /\ device_list' = <<f.v.dev>> \o device_list
               /\ last' = Returned("device_create",
                                   <<f.v.type_name, f.v.dev.name, create_ret>>,
                                   f.v.dev.ptr)
    /\ UNCHANGED <<device_type_list, memVars, monVars, actVars, ruleVars, last_notify, nnotify>>

\* device_destroy up to its return or up to the call of the class destroy
\* hook, which runs with device_mutex released and the device unlinked
device_destroy(t, device) ==
    /\ CanCall(t)
    /\ IF device = NULL
       THEN /\ last' = Returned("device_destroy", <<device>>, PHYMUTI_ERROR_INVALID_PARAM)
            /\ UNCHANGED <<device_list, mutex, stack>>
       ELSE /\ CanLock("device_mutex", t)
            /\ mutex' = Unlock(Lock(mutex, "device_mutex", t), "device_mutex", t)
            /\ IF device \notin ListedDevPtrs
               THEN /\ last' = Returned("device_destroy", <<device>>,
                                        PHYMUTI_ERROR_DEVICE_NOT_FOUND)
                    /\ UNCHANGED <<device_list, stack>>
               ELSE LET k == IndexOf(device_list, LAMBDA d : d.ptr = device)
                    IN /\ device_list' = RemoveAt(device_list, k)
                       /\ \E hook \in HasHook(device_list[k].type, "destroy") :
                            IF hook
                            THEN /\ stack' = Push(t, [op |-> "device_destroy",
                                                      pc |-> "user",
                                                      v |-> [dev |-> device_list[k]]])
                                 /\ UNCHANGED last
                            ELSE /\ last' = Returned("device_destroy", <<device>>,
                                                     PHYMUTI_SUCCESS)
                                 /\ UNCHANGED stack
    /\ UNCHANGED <<device_type_list, memVars, monVars, actVars, ruleVars, last_notify, nnotify>>

\* the destroy hook returns: device_mutex is taken again and the device freed
DeviceDestroyReturn(t) ==
    /\ stack[t] # <<>>
    /\ Head(stack[t]).op = "device_destroy"
    /\ Head(stack[t]).pc = "user"
    /\ CanLock("device_mutex", t)
    /\ mutex' = Unlock(Lock(mutex, "device_mutex", t), "device_mutex", t)
    /\ stack' = [stack EXCEPT ![t] = Tail(@)]
    /\ last' = Returned("device_destroy", <<Head(stack[t]).v.dev.ptr>>, PHYMUTI_SUCCESS)
    /\ UNCHANGED <<devVars, memVars, monVars, actVars, ruleVars, last_notify, nnotify>>

\* device_find_by_name: the handle of the first device of device_list with
\* this name, NULL when there is none
device_find_by_name(t, name) ==
    /\ InUserCode(t)
    /\ IF name = NULL_NAME
       THEN /\ last' = Returned("device_find_by_name", <<name>>, NULL)
            /\ UNCHANGED mutex
       ELSE /\ CanLock("device_mutex", t)
            /\ mutex' = Unlock(Lock(mutex, "device_mutex", t), "device_mutex", t)
            /\ last' = Returned("device_find_by_name", <<name>>,
                                IF FindDeviceByName(name) = 0
                                THEN NULL
                                ELSE device_list[FindDeviceByName(name)].ptr)
    /\ UNCHANGED <<devVars, memVars, monVars, actVars, ruleVars, stack, last_notify, nnotify>>

\* device_reset, device_save_state, device_load_state and device_ioctl: the
\* hook each forwards to, the code returned when the class has no such hook,
\* and whether a second pointer argument is tested against NULL
DeviceCalls ==
    { [name |-> "device_reset", hook |-> "reset",
       none |-> PHYMUTI_SUCCESS, needs_arg |-> FALSE],
      [name |-> "device_save_state", hook |-> "save_state",
       none |-> PHYMUTI_ERROR_NOT_SUPPORTED, needs_arg |-> TRUE],
      [name |-> "device_load_state", hook |-> "load_state",
       none |-> PHYMUTI_ERROR_NOT_SUPPORTED, needs_arg |-> TRUE],
      [name |-> "device_ioctl", hook |-> "ioctl",
       none |-> PHYMUTI_ERROR_NOT_SUPPORTED, needs_arg |-> FALSE] }

\* one of the four forwarding calls on an allocated device, up to its return
\* or up to the call of the hook, which runs with device_mutex released
device_call(t, c, device, arg) ==
    /\ CanCall(t)
    /\ device = NULL \/ device \in AllocatedDevPtrs
    /\ IF device = NULL \/ (c.needs_arg /\ arg = NULL)
       THEN /\ last' = Returned(c.name, <<device, arg>>, PHYMUTI_ERROR_INVALID_PARAM)
            /\ UNCHANGED <<mutex, stack>>
       ELSE /\ CanLock("device_mutex", t)
            /\ mutex' = Unlock(Lock(mutex, "device_mutex", t), "device_mutex", t)
            /\ LET typeptr ==
                     IF device \in ListedDevPtrs
                     THEN device_list[IndexOf(device_list, LAMBDA d : d.ptr = device)].type
                     ELSE (CHOOSE f \in UNION { { stack[u][i] : i \in 1 .. Len(stack[u]) } :
                                                 u \in Threads } :
                              /\ f.op \in {"device_create", "device_destroy"}
                              /\ f.v.dev.ptr = device).v.dev.type
               IN \E hook \in HasHook(typeptr, c.hook) :
                    IF hook
                    THEN /\ stack' = Push(t, [op |-> c.name, pc |-> "user",
                                              v |-> [device |-> device, arg |-> arg]])
                         /\ UNCHANGED last
                    ELSE /\ last' = Returned(c.name, <<device, arg>>, c.none)
                         /\ UNCHANGED stack
    /\ UNCHANGED <<devVars, memVars, monVars, actVars, ruleVars, last_notify, nnotify>>

\* the hook of a forwarding call returns r: device_mutex is taken again and
\* released, and r is handed to the caller
DeviceCallReturn(t, r) ==
    /\ stack[t] # <<>>
    /\ Head(stack[t]).op \in { c.name : c \in DeviceCalls }
    /\ Head(stack[t]).pc = "user"
    /\ CanLock("device_mutex", t)
    /\ mutex' = Unlock(Lock(mutex, "device_mutex", t), "device_mutex", t)
    /\ stack' = [stack EXCEPT ![t] = Tail(@)]
    /\ last' = Returned(Head(stack[t]).op,
                        <<Head(stack[t]).v.device, Head(stack[t]).v.arg>>, r)
    /\ UNCHANGED <<devVars, memVars, monVars, actVars, ruleVars, last_notify, nnotify>>

(* ----------------------------- rule engine ----------------------------- *)
\* the two codes rule_evaluate returns for a disabled rule and for a rule
\* without condition; the source names them and no header defines them, so
\* the values are the next free codes of the rule engine's block
PHYMUTI_ERROR_RULE_DISABLED == -503

PHYMUTI_ERROR_RULE_NO_CONDITION == -504

\* capacity of the action_ids array on the stack of rule_evaluate
RULE_MAX_ACTIONS == 32

\* an empty string passed as a name
EMPTY_NAME == ""

\* find_rule_by_id
FindRule(id) == IndexOf(rule_list, LAMBDA r : r.id = id)

\* the field `rebound` records the ids rule_add_action was called with while
\* they were in the list, `was_enabled` whether rule_enable has ever been
\* applied (neither is program state)
rule_create(t, name) ==
    /\ InUserCode(t)
    /\ Len(rule_list) < MaxRules
    /\ IF name = NULL_NAME \/ name = EMPTY_NAME
       THEN /\ last' = Returned("rule_create", <<name>>, RULE_INVALID_ID)
            /\ UNCHANGED <<ruleVars, mutex>>
       ELSE /\ CanLock("rule_mutex", t)
            /\ mutex' = Unlock(Lock(mutex, "rule_mutex", t), "rule_mutex", t)
            /\ rule_list' = << [id |-> next_rule_id, name |-> name, condition |-> FALSE,
                                action_ids |-> <<>>, enabled |-> TRUE,
                                rebound |-> {}, was_enabled |-> FALSE] >> \o rule_list
            /\ next_rule_id' = ToU32(next_rule_id + 1)
            /\ last' = Returned("rule_create", <<name>>, next_rule_id)
    /\ UNCHANGED <<devVars, memVars, monVars, actVars, stack, last_notify, nnotify>>

rule_destroy(t, id) ==
    /\ InUserCode(t)
    /\ IF id = RULE_INVALID_ID
       THEN /\ last' = Returned("rule_destroy", <<id>>, PHYMUTI_ERROR_INVALID_PARAM)
            /\ UNCHANGED <<rule_list, mutex>>
       ELSE /\ CanLock("rule_mutex", t)
            /\ mutex' = Unlock(Lock(mutex, "rule_mutex", t), "rule_mutex", t)
            /\ IF FindRule(id) # 0
               THEN /\ rule_list' = RemoveAt(rule_list, FindRule(id))
                    /\ last' = Returned("rule_destroy", <<id>>, PHYMUTI_SUCCESS)
               ELSE /\ rule_list' = rule_list
                    /\ last' = Returned("rule_destroy", <<id>>, PHYMUTI_ERROR_RULE_NOT_FOUND)
    /\ UNCHANGED <<devVars, memVars, monVars, actVars, next_rule_id, stack, last_notify, nnotify>>

\* the body shared by the calls that look a rule up and update it in place:
\* INVALID_PARAM when bad, RULE_NOT_FOUND for an unknown id, else the update
\* upd.list with return code upd.rc
RuleUpdate(t, name, in, bad, id, upd(_)) ==
    /\ InUserCode(t)
    /\ IF bad
       THEN /\ last' = Returned(name, in, PHYMUTI_ERROR_INVALID_PARAM)
            /\ UNCHANGED <<rule_list, mutex>>
       ELSE /\ CanLock("rule_mutex", t)
            /\ mutex' = Unlock(Lock(mutex, "rule_mutex", t), "rule_mutex", t)
            /\ IF FindRule(id) = 0
               THEN /\ last' = Returned(name, in, PHYMUTI_ERROR_RULE_NOT_FOUND)
                    /\ UNCHANGED rule_list
               ELSE /\ rule_list' = upd(FindRule(id)).list
                    /\ last' = Returned(name, in, upd(FindRule(id)).rc)
    /\ UNCHANGED <<devVars, memVars, monVars, actVars, next_rule_id, stack, last_notify, nnotify>>

\* condition is TRUE for a predicate, FALSE for a NULL function pointer
rule_set_condition(t, id, condition) ==
    RuleUpdate(t, "rule_set_condition", <<id, condition>>,
               id = RULE_INVALID_ID \/ ~ condition, id,
               LAMBDA k : [list |-> [rule_list EXCEPT ![k].condition = TRUE],
                           rc |-> PHYMUTI_SUCCESS])

rule_add_action(t, id, action_id) ==
    RuleUpdate(t, "rule_add_action", <<id, action_id>>, id = RULE_INVALID_ID, id,
               LAMBDA k : [list |-> IF action_id \in SeqToSet(rule_list[k].action_ids)
                                    THEN [rule_list EXCEPT
                                             ![k].rebound = @ \cup {action_id}]
                                    ELSE [rule_list EXCEPT
                                             ![k].action_ids = Append(@, action_id)],
                           rc |-> PHYMUTI_SUCCESS])

rule_remove_action(t, id, action_id) ==
    RuleUpdate(t, "rule_remove_action", <<id, action_id>>, id = RULE_INVALID_ID, id,
               LAMBDA k :
                 LET ids == rule_list[k].action_ids
                     j == IndexOf(ids, LAMBDA a : a = action_id)
                 IN IF j = 0
                    THEN [list |-> rule_list, rc |-> PHYMUTI_ERROR_NOT_FOUND]
                    ELSE [list |-> [rule_list EXCEPT ![k].action_ids = RemoveAt(ids, j),
                                                     ![k].rebound = @ \ {action_id}],
                          rc |-> PHYMUTI_SUCCESS])

rule_enable(t, id) ==
    RuleUpdate(t, "rule_enable", <<id>>, id = RULE_INVALID_ID, id,
               LAMBDA k : [list |-> [rule_list EXCEPT ![k].enabled = TRUE,
                                                      ![k].was_enabled = TRUE],
                           rc |-> PHYMUTI_SUCCESS])

rule_disable(t, id) ==
    RuleUpdate(t, "rule_disable", <<id>>, id = RULE_INVALID_ID, id,
               LAMBDA k : [list |-> [rule_list EXCEPT ![k].enabled = FALSE],
                           rc |-> PHYMUTI_SUCCESS])

\* the first RULE_MAX_ACTIONS action ids of a rule, each with the context
RuleActions(r, ctx) ==
    [ k \in 1 .. (IF Len(r.action_ids) > RULE_MAX_ACTIONS
                  THEN RULE_MAX_ACTIONS ELSE Len(r.action_ids)) |->
        [action_id |-> r.action_ids[k], context |-> ctx] ]

\* rule_evaluate up to its return or up to the call of the condition
\* predicate, which is made before rule_mutex is released; the field `bound`
\* records the rule's action ids at that point (not program state)
rule_evaluate(t, id, ctx) ==
    /\ CanCall(t)
    /\ IF id = RULE_INVALID_ID
       THEN /\ last' = Returned("rule_evaluate", <<id, ctx>>, PHYMUTI_ERROR_INVALID_PARAM)
            /\ UNCHANGED <<mutex, stack>>
       ELSE /\ CanLock("rule_mutex", t)
            /\ LET k == FindRule(id)
               IN IF k = 0
                  THEN /\ last' = Returned("rule_evaluate", <<id, ctx>>,
                                           PHYMUTI_ERROR_RULE_NOT_FOUND)
                       /\ mutex' = Unlock(Lock(mutex, "rule_mutex", t), "rule_mutex", t)
                       /\ UNCHANGED stack
                  ELSE IF ~ rule_list[k].enabled
                  THEN /\ last' = Returned("rule_evaluate", <<id, ctx>>,
                                           PHYMUTI_ERROR_RULE_DISABLED)
                       /\ mutex' = Unlock(Lock(mutex, "rule_mutex", t), "rule_mutex", t)
                       /\ UNCHANGED stack
                  ELSE IF ~ rule_list[k].condition
                  THEN /\ last' = Returned("rule_evaluate", <<id, ctx>>,
                                           PHYMUTI_ERROR_RULE_NO_CONDITION)
                       /\ mutex' = Unlock(Lock(mutex, "rule_mutex", t), "rule_mutex", t)
                       /\ UNCHANGED stack
                  ELSE /\ mutex' = Lock(mutex, "rule_mutex", t)
                       /\ stack' = Push(t, [op |-> "rule_evaluate", pc |-> "user",
                                            v |-> [id |-> id, ctx |-> ctx,
                                                   matched |-> RuleActions(rule_list[k], ctx),
                                                   i |-> 0, executed |-> <<>>,
                                                   bound |-> rule_list[k].action_ids]])
                       /\ UNCHANGED last
    /\ UNCHANGED <<devVars, memVars, monVars, actVars, ruleVars, last_notify, nnotify>>

\* the condition predicate returns is_match: rule_mutex is released; without
\* a match, or without actions, rule_evaluate returns PHYMUTI_SUCCESS
RuleConditionReturn(t, is_match) ==
    /\ stack[t] # <<>>
    /\ Head(stack[t]).op = "rule_evaluate"
    /\ Head(stack[t]).pc = "user"
    /\ mutex' = Unlock(mutex, "rule_mutex", t)
    /\ LET f == Head(stack[t])
       IN IF is_match /\ f.v.matched # <<>>
          THEN /\ stack' = [stack EXCEPT ![t] = <<[f EXCEPT !.pc = "exec"]>> \o Tail(@)]
               /\ UNCHANGED last
          ELSE /\ stack' = [stack EXCEPT ![t] = Tail(@)]
               /\ last' = Returned("rule_evaluate", <<f.v.id, f.v.ctx>>, PHYMUTI_SUCCESS)
    /\ UNCHANGED <<devVars, memVars, monVars, actVars, ruleVars, last_notify, nnotify>>

\* one iteration of the loop over the copied action ids: action_execute is
\* called and its return code ignored
RuleDispatchNext(t) ==
    /\ stack[t] # <<>>
    /\ Head(stack[t]).op = "rule_evaluate"
    /\ Head(stack[t]).pc = "exec"
    /\ Head(stack[t]).v.i < Len(Head(stack[t]).v.matched)
    /\ LET f == Head(stack[t])
           m == f.v.matched[f.v.i + 1]
           g == [f EXCEPT !.v.i = @ + 1,
                          !.v.executed = Append(@, Called(m, ExecOutcome(m.action_id)))]
       IN /\ IF m.action_id # ACTION_INVALID_ID
             THEN /\ CanLock("action_mutex", t)
                  /\ mutex' = Unlock(Lock(mutex, "action_mutex", t), "action_mutex", t)
             ELSE UNCHANGED mutex
          /\ stack' = [stack EXCEPT ![t] =
                          IF ExecOutcome(m.action_id).cb
                          THEN <<ExecFrame(m.action_id, m.context, FALSE), g>> \o Tail(@)
                          ELSE <<g>> \o Tail(@)]
    /\ UNCHANGED <<devVars, memVars, monVars, actVars, ruleVars, last, last_notify, nnotify>>

\* the loop is over: rule_evaluate returns PHYMUTI_SUCCESS
RuleReturn(t) ==
    /\ stack[t] # <<>>
    /\ Head(stack[t]).op = "rule_evaluate"
    /\ Head(stack[t]).pc = "exec"
    /\ Head(stack[t]).v.i = Len(Head(stack[t]).v.matched)
    /\ stack' = [stack EXCEPT ![t] = Tail(@)]
    /\ last' = Returned("rule_evaluate", <<Head(stack[t]).v.id, Head(stack[t]).v.ctx>>,
                        PHYMUTI_SUCCESS)
    /\ last_notify' = [valid |-> TRUE, ctx |-> Head(stack[t]).v.ctx, seen |-> <<>>,
                       executed |-> Head(stack[t]).v.executed]
    /\ UNCHANGED <<devVars, memVars, monVars, actVars, ruleVars, mutex, nnotify>>

(* ------------------------------- Init ---------------------------------- *)
Init ==
    /\ device_type_list = <<>>
    /\ device_list = <<>>
    /\ memory_region_list = <<>>
    /\ watchpoint_list = <<>>
    /\ next_watchpoint_id = 1
    /\ action_list = <<>>
    /\ next_action_id = 1
    /\ rule_list = <<>>
    /\ next_rule_id = 1
    /\ mutex = [m \in MutexNames |-> [owner |-> 0, depth |-> 0]]
    /\ stack = [t \in Threads |-> <<>>]
    /\ last = NoCall
    /\ last_notify = NoNotify
    /\ heap_corrupted = FALSE
    /\ naccess = 0
    /\ nnotify = 0

(* ----------------- memory accesses on one region (SpecMem) -------------- *)
\* inputs of the memory specification
MemBases == { a \in Addrs : a % 8 = 0 }
MemSizes == {0, 4, 8, 16}
MemFlags == {0, MEMORY_FLAG_READ, MEMORY_FLAG_WRITE,
             MEMORY_FLAG_READ + MEMORY_FLAG_WRITE,
             MEMORY_FLAG_READ + MEMORY_FLAG_WRITE + MEMORY_FLAG_EXEC}

\* the region under test is created once
MemCreate ==
    /\ ~ heap_corrupted
    /\ memory_region_list = <<>>
    /\ \E b \in MemBases, sz \in MemSizes, fl \in MemFlags, nm \in {NULL_NAME, "reg"} :
          memory_region_create(1, NULL, nm, b, sz, fl)

MemValues == {0, 1}

MemTyped ==
    /\ ~ heap_corrupted
    /\ naccess < MaxAccesses
    /\ \E op \in TypedOps, r \in LiveRegionPtrs, a \in Addrs, v \in MemValues :
          /\ op.kind = MEMORY_ACCESS_READ => v = 0
          /\ memory_typed_access(1, op, r, a, v)

MemReadBuffer ==
    /\ ~ heap_corrupted
    /\ naccess < MaxAccesses
    /\ \E r \in LiveRegionPtrs, a \in Addrs, sz \in {0, 3} :
          memory_read_buffer(1, r, a, sz)

MemWriteBuffer ==
    /\ ~ heap_corrupted
    /\ naccess < MaxAccesses
    /\ \E r \in LiveRegionPtrs, a \in Addrs, buf \in {<<>>, <<1, 2, 3>>} :
          memory_write_buffer(1, r, a, buf)

NextMem ==
    \/ MemCreate
    \/ MemTyped
    \/ MemReadBuffer
    \/ MemWriteBuffer

SpecMem == Init /\ [][NextMem]_vars

(* ---------------------- claims on memory accesses ----------------------- *)
TypedNames == { op.name : op \in TypedOps }

BufferNames == {"memory_read_buffer", "memory_write_buffer"}

\* the flag bit an access kind needs
KindBit(kind) ==
    CASE kind = MEMORY_ACCESS_READ -> MEMORY_FLAG_READ
      [] kind = MEMORY_ACCESS_WRITE -> MEMORY_FLAG_WRITE
      [] OTHER -> MEMORY_FLAG_EXEC

\* [addr, addr + n) lies within the region [base, base + size)
InRange(a) ==
    /\ a.base_addr <= a.addr
    /\ a.addr + a.n <= a.base_addr + a.size

\* C8: a typed 2-, 4- or 8-byte access at an address that is not a multiple
\* of its width returns MEMORY_ALIGNMENT, whatever the range check and the
\* permission check would say.
C8_AlignmentFirst ==
    (last.op \in TypedNames /\ last.in.n \in {2, 4, 8} /\ last.in.addr % last.in.n # 0)
        => last.out = PHYMUTI_ERROR_MEMORY_ALIGNMENT

\* a misaligned access that is also out of range on a region that does not
\* permit it has returned MEMORY_ALIGNMENT
C8_Witness ==
    /\ last.op \in TypedNames
    /\ last.in.n \in {2, 4, 8}
    /\ last.in.addr % last.in.n # 0
    /\ ~ InRange(last.in)
    /\ ~ TestFlag(last.in.flags, KindBit(last.in.kind))
    /\ last.out = PHYMUTI_ERROR_MEMORY_ALIGNMENT

\* the region of the last call is readable and writable and its base and
\* size are multiples of 8
C9_Region ==
    /\ last.op \in TypedNames
    /\ last.in.base_addr % 8 = 0
    /\ last.in.size % 8 = 0
    /\ TestFlag(last.in.flags, MEMORY_FLAG_READ)
    /\ TestFlag(last.in.flags, MEMORY_FLAG_WRITE)

\* C9 as stated: on such a region a typed access of width n at base+size-n
\* succeeds and the same access one byte further returns MEMORY_OUT_OF_RANGE.
C9_Original ==
    C9_Region =>
        /\ (last.in.addr = last.in.base_addr + last.in.size - last.in.n)
               => last.out = PHYMUTI_SUCCESS
        /\ (last.in.addr = last.in.base_addr + last.in.size - last.in.n + 1)
               => last.out = PHYMUTI_ERROR_MEMORY_OUT_OF_RANGE

\* C9 (amended): on such a region a typed access of width n at base+size-n
\* succeeds; one byte further it returns MEMORY_OUT_OF_RANGE for n = 1 and
\* MEMORY_ALIGNMENT for n in {2, 4, 8}, the address being misaligned then.
C9_BoundaryAccess ==
    C9_Region =>
        /\ (last.in.addr = last.in.base_addr + last.in.size - last.in.n)
               => last.out = PHYMUTI_SUCCESS
        /\ (last.in.addr = last.in.base_addr + last.in.size - last.in.n + 1)
               => last.out = IF last.in.n = 1
                             THEN PHYMUTI_ERROR_MEMORY_OUT_OF_RANGE
                             ELSE PHYMUTI_ERROR_MEMORY_ALIGNMENT

\* a multi-byte access one byte past the last valid address has returned
\* MEMORY_ALIGNMENT
C9_Witness ==
    /\ C9_Region
    /\ last.in.n \in {2, 4, 8}
    /\ last.in.addr = last.in.base_addr + last.in.size - last.in.n + 1
    /\ last.out = PHYMUTI_ERROR_MEMORY_ALIGNMENT

\* C10: an aligned, in-range read (write) returns MEMORY_PERMISSION when the
\* region lacks the READ (WRITE) flag and succeeds when the flag is set.
C10_Permission ==
    (/\ last.op \in TypedNames \cup BufferNames
     /\ last.in.n >= 1
     /\ last.op \in TypedNames => last.in.addr % last.in.n = 0
     /\ InRange(last.in))
        => last.out = IF TestFlag(last.in.flags, KindBit(last.in.kind))
                      THEN PHYMUTI_SUCCESS
                      ELSE PHYMUTI_ERROR_MEMORY_PERMISSION

(* --------------- the device directory under threads (SpecDev) ----------- *)
\* inputs of the device specification
DevTypeNames == {"tmp"}

DevNames == {"room"}

DevOps == { {"create", "destroy"}, {}, NULL_OPS }

DevRegister ==
    \E t \in Threads, ops \in DevOps : device_type_register(t, "tmp", ops, NULL)

DevUnregister ==
    \E t \in Threads, tn \in DevTypeNames \cup {NULL_NAME} : device_type_unregister(t, tn)

DevCreate ==
    \E t \in Threads, nm \in DevNames \cup {NULL_NAME} : device_create(t, "tmp", nm)

DevCreateReturn ==
    \E t \in Threads, r \in CallbackResults : DeviceCreateReturn(t, r)

DevDestroy ==
    \E t \in Threads, d \in DevPtrs \cup {NULL} : device_destroy(t, d)

DevDestroyReturn == \E t \in Threads : DeviceDestroyReturn(t)

\* a region is created for a device the caller holds a handle of
DevRegionCreate ==
    \E t \in Threads, d \in AllocatedDevPtrs :
        memory_region_create(t, d, "reg", 0, 8, MEMORY_FLAG_READ + MEMORY_FLAG_WRITE)

DevRegionDestroy ==
    \E t \in Threads, r \in LiveRegionPtrs : memory_region_destroy(t, r)

NextDev ==
    \/ DevRegister
    \/ DevUnregister
    \/ DevCreate
    \/ DevCreateReturn
    \/ DevDestroy
    \/ DevDestroyReturn
    \/ DevRegionCreate
    \/ DevRegionDestroy

SpecDev == Init /\ [][NextDev]_vars

(* --------------------- claims on the device directory ------------------ *)
NoDuplicateNames ==
    \A i, j \in 1 .. Len(device_list) :
        i # j => device_list[i].name # device_list[j].name

\* the step is the return of a device_create with a handle, and the handle
\* has exactly one entry in the directory
ReturnedHandleListed ==
    (last' # last /\ last'.op = "device_create" /\ last'.out # NULL)
        => Cardinality({ i \in 1 .. Len(device_list') :
                           device_list'[i].ptr = last'.out }) = 1

\* C4: under any interleaving of device_create calls of several threads,
\* same-name calls included, no two instances in the directory share a name
\* and every device_create that returns a handle has exactly one entry.
C4_UniqueNames == [] NoDuplicateNames /\ [][ReturnedHandleListed]_vars

\* an instance of the class registered as type_name exists: in the directory
\* or in the hands of a device_create whose create hook is running
InstanceExists(type_name) ==
    /\ FindType(type_name) # 0
    /\ LET p == device_type_list[FindType(type_name)].ptr
       IN \/ \E i \in 1 .. Len(device_list) : device_list[i].type = p
          \/ \E t \in Threads : \E i \in 1 .. Len(stack[t]) :
                /\ stack[t][i].op = "device_create"
                /\ stack[t][i].v.dev.type = p

\* the step is the return of a device_type_unregister of a class that has an
\* instance, and it returns BUSY and leaves the class registered
UnregisterBusy ==
    (/\ last' # last
     /\ last'.op = "device_type_unregister"
     /\ InstanceExists(last'.in[1]))
        => /\ last'.out = PHYMUTI_ERROR_BUSY
           /\ device_type_list' = device_type_list

EveryDeviceHasRegisteredType ==
    \A i \in 1 .. Len(device_list) : device_list[i].type \in LiveTypePtrs

\* C5: device_type_unregister returns BUSY and leaves the class registered
\* whenever an instance of it exists, one whose create hook is still running
\* included; so every device in the directory references a registered class.
C5_UnregisterBusy == [] EveryDeviceHasRegisteredType /\ [][UnregisterBusy]_vars

\* C7: the owner of every region in the directory is a live device (linked,
\* or in the hands of a device_create or device_destroy that has not
\* returned): once device_destroy(d) has returned no region is owned by d.
C7_RegionOwnerLive ==
    \A i \in 1 .. Len(memory_region_list) :
        memory_region_list[i].device \in AllocatedDevPtrs

(* ------------- user code called by the registries (SpecCallbacks) ------- *)
\* the context handed to action_execute and rule_evaluate
CbContext == Context(1, 0, 4, 0, MEMORY_ACCESS_WRITE)

\* API calls are made by the embedder and by user code the embedder's calls
\* have invoked, down to CbDepth calls in progress
CbCanCall == Len(stack[1]) < CbDepth

\* the class with every hook is registered once
CbRegister ==
    /\ device_type_list = <<>>
    /\ device_type_register(1, "tmp", HookNames, NULL)

CbDeviceCreate ==
    /\ CbCanCall
    /\ device_create(1, "tmp", "room")

CbDeviceCreateReturn == \E r \in CallbackResults : DeviceCreateReturn(1, r)

CbDeviceCall ==
    /\ CbCanCall
    /\ \E c \in DeviceCalls, d \in AllocatedDevPtrs : device_call(1, c, d, 1)

CbDeviceCallReturn == DeviceCallReturn(1, PHYMUTI_SUCCESS)

CbDeviceDestroy ==
    /\ CbCanCall
    /\ \E d \in ListedDevPtrs : device_destroy(1, d)

CbDeviceDestroyReturn == DeviceDestroyReturn(1)

CbActionCreate == action_create(1, ACTION_TYPE_CALLBACK, 1)

CbActionExecute ==
    /\ CbCanCall
    /\ \E k \in 1 .. Len(action_list) : action_execute(1, action_list[k].id, CbContext)

CbActionReturn == ActionCallbackReturn(1, PHYMUTI_SUCCESS)

CbRuleCreate ==
    /\ rule_list = <<>>
    /\ rule_create(1, "high")

CbRuleSetCondition ==
    \E k \in 1 .. Len(rule_list) : rule_set_condition(1, rule_list[k].id, TRUE)

CbRuleAddAction ==
    /\ action_list # <<>>
    /\ \E k \in 1 .. Len(rule_list) :
          rule_add_action(1, rule_list[k].id, Head(action_list).id)

CbRuleEvaluate ==
    /\ CbCanCall
    /\ \E k \in 1 .. Len(rule_list) : rule_evaluate(1, rule_list[k].id, CbContext)

CbRuleConditionReturn == \E is_match \in BOOLEAN : RuleConditionReturn(1, is_match)

CbRuleDispatchNext == RuleDispatchNext(1)

CbRuleReturn == RuleReturn(1)

NextCallbacks ==
    \/ CbRegister
    \/ CbDeviceCreate
    \/ CbDeviceCreateReturn
    \/ CbDeviceCall
    \/ CbDeviceCallReturn
    \/ CbDeviceDestroy
    \/ CbDeviceDestroyReturn
    \/ CbActionCreate
    \/ CbActionExecute
    \/ CbActionReturn
    \/ CbRuleCreate
    \/ CbRuleSetCondition
    \/ CbRuleAddAction
    \/ CbRuleEvaluate
    \/ CbRuleConditionReturn
    \/ CbRuleDispatchNext
    \/ CbRuleReturn

SpecCallbacks == Init /\ [][NextCallbacks]_vars

\* the registry mutex of the registry an API call belongs to
Registry(op) ==
    CASE op = "action_execute" -> "action_mutex"
      [] op = "rule_evaluate" -> "rule_mutex"
      [] OTHER -> "device_mutex"

\* C3: while user code runs (a device class hook, an action callback, a rule
\* condition predicate), the thread that invoked it does not hold the mutex
\* of the registry that invoked it.
C3_NoMutexInUserCode ==
    \A t \in Threads : \A i \in 1 .. Len(stack[t]) :
        stack[t][i].pc = "user" => mutex[Registry(stack[t][i].op)].owner # t

(* --------------- watchpoints and their dispatch (SpecMon) --------------- *)
\* the word store the embedder and the callback make on the monitored range
WriteWord == CHOOSE op \in TypedOps : op.name = "memory_write_word"

\* the embedder itself (no API call in progress) creates and destroys the
\* region, creates the action and makes the accesses; the callback adds
\* watchpoints and binds actions
MonEmbedder == stack[1] = <<>>

\* the region under test is created when the directory is empty; the
\* allocator hands out the block of the region destroyed before
MonRegionCreate ==
    /\ MonEmbedder
    /\ memory_region_list = <<>>
    /\ memory_region_create(1, NULL, "reg", 0, 8, MEMORY_FLAG_READ + MEMORY_FLAG_WRITE)
    /\ memory_region_list'[1].ptr = 1

MonRegionDestroy ==
    /\ MonEmbedder
    /\ \E r \in LiveRegionPtrs : memory_region_destroy(1, r)

\* the callback action comes first, so that it has id 1
MonActionCreate ==
    /\ MonEmbedder
    /\ action_list = <<>>
    /\ action_create(1, ACTION_TYPE_CALLBACK, 1)

\* a write watchpoint on the first word of a live region; older watchpoints
\* keep at most one bound id
MonAddWatchpoint ==
    /\ next_watchpoint_id <= MaxWatchpoints
    /\ watchpoint_list # <<>> => Len(Head(watchpoint_list).action_ids) <= 1
    /\ \E r \in LiveRegionPtrs : monitor_add_watchpoint(1, r, 0, 4, WATCHPOINT_WRITE, 0)

\* the next id (1, 2, ...) is bound to the newest watchpoint
MonBind ==
    /\ watchpoint_list # <<>>
    /\ Len(Head(watchpoint_list).action_ids) < MaxBind
    /\ monitor_bind_action(1, Head(watchpoint_list).id,
                           Len(Head(watchpoint_list).action_ids) + 1)

MonWrite ==
    /\ MonEmbedder
    /\ naccess < MonAccesses
    /\ \E r \in LiveRegionPtrs : memory_typed_access(1, WriteWord, r, 0, 1)

MonDispatchNext == DispatchNext(1)

MonCallbackReturn == ActionCallbackReturn(1, PHYMUTI_SUCCESS)

MonNotifyReturn == NotifyReturn(1)

NextMon ==
    \/ MonRegionCreate
    \/ MonRegionDestroy
    \/ MonActionCreate
    \/ MonAddWatchpoint
    \/ MonBind
    \/ MonWrite
    \/ MonDispatchNext
    \/ MonCallbackReturn
    \/ MonNotifyReturn

SpecMon == Init /\ [][NextMon]_vars

(* ------------------------- claims on the monitor ------------------------ *)
\* the watchpoint is enabled, on the region of the access, overlaps
\* [address, address + size) and its kind matches (access_type, value)
Matches(w, ctx) ==
    /\ w.enabled
    /\ w.region = ctx.region
    /\ w.addr < ctx.address + ctx.size
    /\ ctx.address < w.addr + w.size
    /\ \/ w.type = WATCHPOINT_READ /\ ctx.access_type = MEMORY_ACCESS_READ
       \/ w.type = WATCHPOINT_WRITE /\ ctx.access_type = MEMORY_ACCESS_WRITE
       \/ w.type = WATCHPOINT_ACCESS
            /\ ctx.access_type \in {MEMORY_ACCESS_READ, MEMORY_ACCESS_WRITE}
       \/ w.type = WATCHPOINT_VALUE_WRITE
            /\ ctx.access_type = MEMORY_ACCESS_WRITE /\ ctx.value = w.wpvalue

\* how many times the notify handed action id a of watchpoint w, with the
\* context ctx, to action_execute
Executions(executed, w, a, ctx) ==
    Cardinality({ i \in 1 .. Len(executed) :
                    /\ executed[i].wp = w.id
                    /\ executed[i].action_id = a
                    /\ executed[i].context = ctx })

\* C1: when monitor_notify_memory_access(r, a, s, v, k) has returned, every
\* bound action id of every watchpoint that matched at the time of the walk
\* has been passed to action_execute exactly once with the context
\* {r, a, s, v, k}, and no action of any other watchpoint has been executed,
\* however many watchpoints match and however many actions are bound.
C1_AllBoundActionsOnce ==
    last_notify.valid =>
        /\ \A i \in 1 .. Len(last_notify.seen) :
             LET w == last_notify.seen[i]
             IN \A j \in 1 .. Len(w.action_ids) :
                  Executions(last_notify.executed, w, w.action_ids[j], last_notify.ctx)
                    = IF Matches(w, last_notify.ctx) THEN 1 ELSE 0
        /\ \A i \in 1 .. Len(last_notify.executed) :
             \E j \in 1 .. Len(last_notify.seen) :
                /\ last_notify.seen[j].id = last_notify.executed[i].wp
                /\ last_notify.executed[i].action_id
                     \in SeqToSet(last_notify.seen[j].action_ids)

\* C2: a watchpoint added by an action callback during a dispatch has none of
\* its actions executed by the dispatch in progress, and has all its bound
\* actions executed by a later access it matches.
C2_AddedInCallback ==
    /\ \A t \in Threads : \A i \in 1 .. Len(stack[t]) :
         stack[t][i].op = "notify" =>
            \A j \in 1 .. Len(stack[t][i].v.executed) :
               \E k \in 1 .. Len(stack[t][i].v.seen) :
                  stack[t][i].v.seen[k].id = stack[t][i].v.executed[j].wp
    /\ last_notify.valid =>
         \A i \in 1 .. Len(last_notify.seen) :
            LET w == last_notify.seen[i]
            IN (w.during /\ Matches(w, last_notify.ctx)) =>
                  \A j \in 1 .. Len(w.action_ids) :
                     \E e \in 1 .. Len(last_notify.executed) :
                        /\ last_notify.executed[e].wp = w.id
                        /\ last_notify.executed[e].action_id = w.action_ids[j]

\* C6: every watchpoint of the monitor references a region that is in the
\* memory-region directory.
C6_WatchpointRegionLive ==
    \A i \in 1 .. Len(watchpoint_list) :
        watchpoint_list[i].region \in LiveRegionPtrs

(* ------------- writes followed by reads on one region (SpecAccess) ------ *)
\* inputs of the access specification
AccBases == {8, 16}
AccSizes == {8, 16}
AccFlags == {MEMORY_FLAG_READ, MEMORY_FLAG_READ + MEMORY_FLAG_WRITE}
AccValues == {0, 1, ByteMod + 2}
AccLengths == {0, 3, 16}

AccCreate ==
    /\ ~ heap_corrupted
    /\ memory_region_list = <<>>
    /\ \E b \in AccBases, sz \in AccSizes, fl \in AccFlags :
          memory_region_create(1, NULL, "reg", b, sz, fl)

\* the value passed to a typed write fits the parameter's type
AccTyped ==
    /\ ~ heap_corrupted
    /\ naccess < AccAccesses
    /\ \E op \in TypedOps, r \in LiveRegionPtrs, a \in Addrs, v \in AccValues :
          /\ op.kind = MEMORY_ACCESS_READ => v = 0
          /\ v < ByteMod ^ op.n
          /\ memory_typed_access(1, op, r, a, v)

AccReadBuffer ==
    /\ ~ heap_corrupted
    /\ naccess < AccAccesses
    /\ \E r \in LiveRegionPtrs, a \in Addrs, sz \in AccLengths :
          memory_read_buffer(1, r, a, sz)

AccWriteBuffer ==
    /\ ~ heap_corrupted
    /\ naccess < AccAccesses
    /\ \E r \in LiveRegionPtrs, a \in Addrs, sz \in AccLengths :
          memory_write_buffer(1, r, a, [k \in 1 .. sz |-> (k + 1) % ByteMod])

NextAccess ==
    \/ AccCreate
    \/ AccTyped
    \/ AccReadBuffer
    \/ AccWriteBuffer

SpecAccess == Init /\ [][NextAccess]_vars

(* --------------------- claims on writes and reads ----------------------- *)
\* the typed read of the same width as a typed write
ReadTwin(name) ==
    CASE name = "memory_write_byte" -> "memory_read_byte"
      [] name = "memory_write_halfword" -> "memory_read_halfword"
      [] name = "memory_write_word" -> "memory_read_word"
      [] name = "memory_write_doubleword" -> "memory_read_doubleword"
      [] name = "memory_write_buffer" -> "memory_read_buffer"
      [] OTHER -> "none"

\* the step is a successful read that directly follows a successful write of
\* the same width (length) at the same in-range address of the same region,
\* and it returns what was written
RoundTrip ==
    (/\ naccess' = naccess + 1
     /\ ReadTwin(last.op) # "none"
     /\ last.out = PHYMUTI_SUCCESS
     /\ InRange(last.in)
     /\ last'.op = ReadTwin(last.op)
     /\ last'.out = PHYMUTI_SUCCESS
     /\ last'.in.region = last.in.region
     /\ last'.in.addr = last.in.addr
     /\ last'.in.n = last.in.n)
        => last'.in.value = last.in.value

\* C12: a successful write of width 1/2/4/8 at a permitted, aligned, in-range
\* address followed, with no write in between, by a read of the same width at
\* that address returns the value written; a write_buffer followed by a
\* read_buffer of the same length returns the bytes written.
C12_RoundTrip == [][RoundTrip]_vars

\* a word read and a buffer read have returned what the write before them
\* stored: a value and bytes that the zeroed backing did not hold
C12_Witness ==
    /\ naccess = 2
    /\ last.out = PHYMUTI_SUCCESS
    /\ InRange(last.in)
    /\ \/ last.op = "memory_read_word" /\ last.in.value = ByteMod + 2
       \/ last.op = "memory_read_buffer" /\ last.in.value = <<2, 3, 0>>

\* a successful buffer access has broadcast value 0 and its length
BufferContext ==
    (last.op \in BufferNames /\ last.out = PHYMUTI_SUCCESS) =>
        /\ last_notify.valid
        /\ last_notify.ctx.region = last.in.region
        /\ last_notify.ctx.address = last.in.addr
        /\ last_notify.ctx.value = 0
        /\ last_notify.ctx.size = last.in.n

\* the step of a successful buffer access makes one walk of the monitor
BufferOneBroadcast ==
    (/\ naccess' = naccess + 1
     /\ last'.op \in BufferNames
     /\ last'.out = PHYMUTI_SUCCESS)
        => nnotify' = nnotify + 1

\* C13: a successful memory_read_buffer or memory_write_buffer of length L
\* emits exactly one broadcast, whose context has value 0 and size L, whatever
\* L is and whatever bytes are transferred.
C13_BufferBroadcast == [] BufferContext /\ [][BufferOneBroadcast]_vars

(* ------------ one watchpoint and the accesses it sees (SpecWp) ---------- *)
\* inputs of the watchpoint specification
WpTypes == {WATCHPOINT_READ, WATCHPOINT_WRITE, WATCHPOINT_ACCESS, WATCHPOINT_VALUE_WRITE}
WpAddSizes == {0, 2, 9}
WpValues == {0, 1}
WpAccessAddrs == 1 .. 4
WpKinds == {MEMORY_ACCESS_READ, MEMORY_ACCESS_WRITE, MEMORY_ACCESS_EXEC}

\* the embedder sets the monitor up and then makes its accesses; no call is
\* made from inside a callback
WpSetup == stack[1] = <<>> /\ naccess = 0 /\ nnotify = 0

WpCanAccess == stack[1] = <<>> /\ naccess < MaxAccesses /\ nnotify < MaxAccesses

WpRegionCreate ==
    /\ WpSetup
    /\ memory_region_list = <<>>
    /\ memory_region_create(1, NULL, "reg", 0, 8, MEMORY_FLAG_READ + MEMORY_FLAG_WRITE)

WpActionCreate ==
    /\ WpSetup
    /\ action_list = <<>>
    /\ action_create(1, ACTION_TYPE_CALLBACK, 1)

\* a watchpoint on [2, 2 + size) of the region
WpAdd ==
    /\ WpSetup
    /\ watchpoint_list = <<>>
    /\ \E r \in LiveRegionPtrs, sz \in WpAddSizes, ty \in WpTypes, v \in WpValues :
          monitor_add_watchpoint(1, r, 2, sz, ty, v)

WpBind ==
    /\ WpSetup
    /\ \E k \in 1 .. Len(watchpoint_list), a \in 1 .. Len(action_list) :
          monitor_bind_action(1, watchpoint_list[k].id, action_list[a].id)

WpDisable ==
    /\ WpSetup
    /\ \E k \in 1 .. Len(watchpoint_list) :
          monitor_disable_watchpoint(1, watchpoint_list[k].id)

WpEnable ==
    /\ WpSetup
    /\ \E k \in 1 .. Len(watchpoint_list) :
          monitor_enable_watchpoint(1, watchpoint_list[k].id)

\* byte and halfword reads and writes around the watchpoint
WpTyped ==
    /\ WpCanAccess
    /\ \E op \in { o \in TypedOps : o.n <= 2 }, r \in LiveRegionPtrs,
          a \in WpAccessAddrs, v \in WpValues :
          /\ op.kind = MEMORY_ACCESS_READ => v = 0
          /\ memory_typed_access(1, op, r, a, v)

WpReadBuffer ==
    /\ WpCanAccess
    /\ \E r \in LiveRegionPtrs : memory_read_buffer(1, r, 1, 3)

WpWriteBuffer ==
    /\ WpCanAccess
    /\ \E r \in LiveRegionPtrs : memory_write_buffer(1, r, 1, <<1, 2, 3>>)

\* a direct call of the broadcast, the only way to announce an EXEC access
WpNotify ==
    /\ WpCanAccess
    /\ \E r \in LiveRegionPtrs, a \in WpAccessAddrs, v \in WpValues, k \in WpKinds :
          monitor_notify_memory_access(1, r, a, 1, v, k)

WpDispatchNext == DispatchNext(1)

WpCallbackReturn == ActionCallbackReturn(1, PHYMUTI_SUCCESS)

WpNotifyReturn == NotifyReturn(1)

NextWp ==
    \/ WpRegionCreate
    \/ WpActionCreate
    \/ WpAdd
    \/ WpBind
    \/ WpDisable
    \/ WpEnable
    \/ WpTyped
    \/ WpReadBuffer
    \/ WpWriteBuffer
    \/ WpNotify
    \/ WpDispatchNext
    \/ WpCallbackReturn
    \/ WpNotifyReturn

SpecWp == Init /\ [][NextWp]_vars

(* ------------------ claims on one watchpoint's filters ------------------ *)
\* the API call a step enters or completes: the call whose dispatch the step
\* starts, or else the call that has just returned
StepCall ==
    IF Len(stack'[1]) > Len(stack[1]) /\ Head(stack'[1]).op = "notify"
    THEN Head(stack'[1]).v.caller
    ELSE last'

\* a step that makes an access walks the monitor once if the access succeeds
\* and not at all if it fails, and no other step walks it except a direct call
OneBroadcastPerAccess ==
    /\ naccess' = naccess + 1 =>
          nnotify' = nnotify + (IF StepCall.out = PHYMUTI_SUCCESS THEN 1 ELSE 0)
    /\ (naccess' = naccess /\ nnotify' # nnotify) =>
          StepCall.op = "monitor_notify_memory_access"

\* while a callback dispatched for a write runs, the backing holds the value
\* (the bytes) written
CallbackSeesWrite ==
    \A t \in Threads : \A i \in 1 .. (Len(stack[t]) - 1) :
        LET c == stack[t][i + 1].v.caller
        IN (/\ stack[t][i].op = "action_execute"
            /\ stack[t][i].pc = "user"
            /\ stack[t][i + 1].op = "notify"
            /\ c.op \in TypedNames \cup BufferNames
            /\ c.in.kind = MEMORY_ACCESS_WRITE)
              => LET reg == RegionAt(c.in.region)
                     offset == c.in.addr - reg.base_addr
                 IN IF c.op \in TypedNames
                    THEN LoadLE(reg.data, offset, c.in.n) = c.in.value
                    ELSE LoadBytes(reg.data, offset, c.in.n) = c.in.value

\* C11: every successful typed or buffer read or write makes exactly one
\* monitor_notify_memory_access call, and for a write the call comes after the
\* store, so that a callback reading the written address during the dispatch
\* sees the new value.
C11_OneBroadcastAfterStore == [] CallbackSeesWrite /\ [][OneBroadcastPerAccess]_vars

\* a callback is running for a halfword write of the value 1
C11_Witness ==
    /\ Len(stack[1]) = 2
    /\ stack[1][1].op = "action_execute"
    /\ stack[1][2].v.caller.op = "memory_write_halfword"
    /\ stack[1][2].v.caller.in.value = 1
    /\ nnotify = 1

\* the notify whose dispatch returned last executed some action of w
Fired(w) ==
    \E i \in 1 .. Len(last_notify.executed) : last_notify.executed[i].wp = w.id

\* a watchpoint that has never been disabled is enabled
NeverDisabledIsEnabled ==
    \A i \in 1 .. Len(watchpoint_list) :
        ~ watchpoint_list[i].was_disabled => watchpoint_list[i].enabled

\* C14: a newly added watchpoint is enabled; an access made while a watchpoint
\* is disabled executes none of its actions, and a matching access made while
\* it is enabled, after a disable and an enable included, executes each of its
\* actions once.
C14_EnableDisable ==
    /\ NeverDisabledIsEnabled
    /\ last_notify.valid =>
         \A i \in 1 .. Len(last_notify.seen) :
            LET w == last_notify.seen[i]
            IN /\ ~ w.enabled => ~ Fired(w)
               /\ (w.enabled /\ Matches(w, last_notify.ctx)) =>
                     \A j \in 1 .. Len(w.action_ids) :
                        Executions(last_notify.executed, w, w.action_ids[j],
                                   last_notify.ctx) = 1

\* the kind filter as the claim states it
KindFilter(w, ctx) ==
    \/ w.type = WATCHPOINT_READ /\ ctx.access_type = MEMORY_ACCESS_READ
    \/ w.type = WATCHPOINT_WRITE /\ ctx.access_type = MEMORY_ACCESS_WRITE
    \/ w.type = WATCHPOINT_ACCESS /\ ctx.access_type # MEMORY_ACCESS_EXEC
    \/ /\ w.type = WATCHPOINT_VALUE_WRITE
       /\ ctx.access_type = MEMORY_ACCESS_WRITE
       /\ ctx.value = w.wpvalue

\* the watchpoint passes every test of the walk but the kind filter, and has
\* an action to execute
KindDecides(w, ctx) ==
    /\ w.enabled
    /\ w.region = ctx.region
    /\ w.addr < ctx.address + ctx.size
    /\ ctx.address < w.addr + w.size
    /\ w.action_ids # <<>>

\* C15: the kind filter matches a READ watchpoint only on READ accesses, a
\* WRITE watchpoint only on WRITE accesses, an ACCESS watchpoint on READ and
\* WRITE and never on EXEC, a VALUE_WRITE watchpoint only on WRITE accesses
\* whose value equals its target value. (A watchpoint that passes the other
\* tests of the walk and has a bound action has fired exactly when the filter
\* has matched it.)
C15_KindFilter ==
    last_notify.valid =>
        \A i \in 1 .. Len(last_notify.seen) :
            KindDecides(last_notify.seen[i], last_notify.ctx) =>
                (Fired(last_notify.seen[i])
                   <=> KindFilter(last_notify.seen[i], last_notify.ctx))

\* an EXEC access inside the range of an ACCESS watchpoint has not fired it
C15_Witness ==
    /\ last_notify.valid
    /\ last_notify.ctx.access_type = MEMORY_ACCESS_EXEC
    /\ \E i \in 1 .. Len(last_notify.seen) :
          /\ last_notify.seen[i].type = WATCHPOINT_ACCESS
          /\ KindDecides(last_notify.seen[i], last_notify.ctx)
          /\ ~ Fired(last_notify.seen[i])

SizesValid ==
    \A i \in 1 .. Len(watchpoint_list) :
        1 <= watchpoint_list[i].size /\ watchpoint_list[i].size <= 8

\* a monitor_add_watchpoint with a size outside 1 .. 8 has returned 0
BadSizeRefused ==
    (last.op = "monitor_add_watchpoint" /\ last.in[3] \notin 1 .. 8)
        => last.out = MONITOR_INVALID_ID

\* the step of such a call leaves the watchpoint list as it was
BadSizeAddsNothing ==
    (last' # last /\ last'.op = "monitor_add_watchpoint" /\ last'.in[3] \notin 1 .. 8)
        => UNCHANGED <<watchpoint_list, next_watchpoint_id>>

\* C19: monitor_add_watchpoint with size 0 or size > 8 returns the invalid id
\* 0 and adds nothing, so every watchpoint has 1 <= size <= 8.
C19_SizeLimits == [] (SizesValid /\ BadSizeRefused) /\ [][BadSizeAddsNothing]_vars

\* a watchpoint of size 9 has been refused
C19_Witness ==
    /\ last.op = "monitor_add_watchpoint"
    /\ last.in[3] = 9
    /\ last.out = MONITOR_INVALID_ID
    /\ watchpoint_list = <<>>

(* ------------- ranges of watchpoints and accesses (SpecOverlap) --------- *)
\* inputs of the overlap specification: watchpoints in the middle and at the
\* top of the address space, accesses of every start and of sizes 0 .. 4
OvWpAddrs == {4, AddrMod - 2}
OvWpSizes == {1, 2, 4}
OvAccessSizes == 0 .. 4

OvSetup == stack[1] = <<>> /\ naccess = 0 /\ nnotify = 0

OvCanAccess == stack[1] = <<>> /\ naccess < MaxAccesses /\ nnotify < MaxAccesses

OvRegionCreate ==
    /\ OvSetup
    /\ memory_region_list = <<>>
    /\ memory_region_create(1, NULL, "reg", 0, 8, MEMORY_FLAG_READ + MEMORY_FLAG_WRITE)

OvActionCreate ==
    /\ OvSetup
    /\ action_list = <<>>
    /\ action_create(1, ACTION_TYPE_CALLBACK, 1)

OvAdd ==
    /\ OvSetup
    /\ watchpoint_list = <<>>
    /\ \E r \in LiveRegionPtrs, a \in OvWpAddrs, sz \in OvWpSizes :
          monitor_add_watchpoint(1, r, a, sz, WATCHPOINT_ACCESS, 0)

OvBind ==
    /\ OvSetup
    /\ \E k \in 1 .. Len(watchpoint_list), a \in 1 .. Len(action_list) :
          /\ watchpoint_list[k].action_ids = <<>>
          /\ monitor_bind_action(1, watchpoint_list[k].id, action_list[a].id)

\* the typed reads of the region, which reach the monitor with sizes 1, 2, 4
OvTyped ==
    /\ OvCanAccess
    /\ \E op \in { o \in TypedOps : o.kind = MEMORY_ACCESS_READ /\ o.n <= 4 },
          r \in LiveRegionPtrs, a \in 0 .. 7 :
          memory_typed_access(1, op, r, a, 0)

\* a direct call of the broadcast with any start and size
OvNotify ==
    /\ OvCanAccess
    /\ \E r \in LiveRegionPtrs, a \in 0 .. (AddrMod - 1), sz \in OvAccessSizes :
          monitor_notify_memory_access(1, r, a, sz, 0, MEMORY_ACCESS_READ)

OvDispatchNext == DispatchNext(1)

OvCallbackReturn == ActionCallbackReturn(1, PHYMUTI_SUCCESS)

OvNotifyReturn == NotifyReturn(1)

NextOverlap ==
    \/ OvRegionCreate
    \/ OvActionCreate
    \/ OvAdd
    \/ OvBind
    \/ OvTyped
    \/ OvNotify
    \/ OvDispatchNext
    \/ OvCallbackReturn
    \/ OvNotifyReturn

SpecOverlap == Init /\ [][NextOverlap]_vars

\* some address lies in both [a1, a1 + s1) and [a2, a2 + s2)
RangesIntersect(a1, s1, a2, s2) ==
    \E x \in 0 .. (AddrMod - 1) :
        /\ a1 <= x /\ x < a1 + s1
        /\ a2 <= x /\ x < a2 + s2

\* C16: a watchpoint covering [wa, wa+ws) fires for an access [a, a+s) if and
\* only if the two half-open ranges intersect; an access that exactly abuts
\* the watchpoint's range does not fire it.
C16_HalfOpenOverlap ==
    last_notify.valid =>
        \A i \in 1 .. Len(last_notify.seen) :
            LET w == last_notify.seen[i]
                ctx == last_notify.ctx
            IN (/\ w.enabled
                /\ w.region = ctx.region
                /\ KindFilter(w, ctx)
                /\ w.action_ids # <<>>)
                  => (Fired(w) <=> RangesIntersect(w.addr, w.size,
                                                   ctx.address, ctx.size))

(* ------- more actions than MAX_MATCHES, bound and bound again (SpecCap) --- *)
\* the embedder sets up either watchpoints or a rule, then makes one access
\* or one evaluation; no call is made from inside a callback
CapSetup == stack[1] = <<>> /\ naccess = 0 /\ last.op # "rule_evaluate"

CapRegionCreate ==
    /\ CapSetup
    /\ memory_region_list = <<>>
    /\ memory_region_create(1, NULL, "reg", 0, 8, MEMORY_FLAG_READ + MEMORY_FLAG_WRITE)

CapActionCreate ==
    /\ CapSetup
    /\ memory_region_list # <<>>
    /\ action_list = <<>>
    /\ action_create(1, ACTION_TYPE_CALLBACK, 1)

\* a write watchpoint on the first word; older watchpoints keep at most one
\* bound id
CapAdd ==
    /\ CapSetup
    /\ action_list # <<>>
    /\ rule_list = <<>>
    /\ Len(watchpoint_list) < MaxWatchpoints
    /\ watchpoint_list # <<>> => Len(Head(watchpoint_list).action_ids) = 1
    /\ \E r \in LiveRegionPtrs : monitor_add_watchpoint(1, r, 0, 4, WATCHPOINT_WRITE, 0)

\* the next id (1, 2, ...) is bound to the newest watchpoint
CapBind ==
    /\ CapSetup
    /\ watchpoint_list # <<>>
    /\ Len(Head(watchpoint_list).action_ids) < MaxBind
    /\ monitor_bind_action(1, Head(watchpoint_list).id,
                           Len(Head(watchpoint_list).action_ids) + 1)

\* the id bound last to a watchpoint is bound to it again, once
CapBindAgain ==
    /\ CapSetup
    /\ \E k \in 1 .. Len(watchpoint_list) :
          /\ watchpoint_list[k].action_ids # <<>>
          /\ watchpoint_list[k].rebound = {}
          /\ monitor_bind_action(1, watchpoint_list[k].id,
                                 watchpoint_list[k].action_ids[
                                     Len(watchpoint_list[k].action_ids)])

\* the oldest watchpoint is disabled, and enabled again
CapDisable ==
    /\ CapSetup
    /\ watchpoint_list # <<>>
    /\ watchpoint_list[Len(watchpoint_list)].enabled
    /\ monitor_disable_watchpoint(1, watchpoint_list[Len(watchpoint_list)].id)

CapEnable ==
    /\ CapSetup
    /\ watchpoint_list # <<>>
    /\ ~ watchpoint_list[Len(watchpoint_list)].enabled
    /\ monitor_enable_watchpoint(1, watchpoint_list[Len(watchpoint_list)].id)

CapWrite ==
    /\ CapSetup
    /\ \E r \in LiveRegionPtrs : memory_typed_access(1, WriteWord, r, 0, 1)

CapDispatchNext == DispatchNext(1)

CapCallbackReturn == ActionCallbackReturn(1, PHYMUTI_SUCCESS)

CapNotifyReturn == NotifyReturn(1)

CapRuleCreate ==
    /\ CapSetup
    /\ action_list # <<>>
    /\ watchpoint_list = <<>>
    /\ rule_list = <<>>
    /\ rule_create(1, "rule")

CapRuleSetCondition ==
    /\ CapSetup
    /\ \E k \in 1 .. Len(rule_list) :
          /\ ~ rule_list[k].condition
          /\ rule_set_condition(1, rule_list[k].id, TRUE)

\* the next id (1, 2, ...) is added to the rule
CapRuleAdd ==
    /\ CapSetup
    /\ \E k \in 1 .. Len(rule_list) :
          /\ Len(rule_list[k].action_ids) < MaxBind
          /\ rule_add_action(1, rule_list[k].id, Len(rule_list[k].action_ids) + 1)

\* the id added last to the rule is added to it again, once
CapRuleAddAgain ==
    /\ CapSetup
    /\ \E k \in 1 .. Len(rule_list) :
          /\ rule_list[k].action_ids # <<>>
          /\ rule_list[k].rebound = {}
          /\ rule_add_action(1, rule_list[k].id,
                             rule_list[k].action_ids[Len(rule_list[k].action_ids)])

CapRuleEvaluate ==
    /\ CapSetup
    /\ \E k \in 1 .. Len(rule_list), r \in LiveRegionPtrs :
          /\ rule_list[k].condition
          /\ rule_evaluate(1, rule_list[k].id,
                           Context(r, 0, 4, 1, MEMORY_ACCESS_WRITE))

CapRuleConditionReturn == \E is_match \in BOOLEAN : RuleConditionReturn(1, is_match)

CapRuleDispatchNext == RuleDispatchNext(1)

CapRuleReturn == RuleReturn(1)

NextCap ==
    \/ CapRegionCreate
    \/ CapActionCreate
    \/ CapAdd
    \/ CapBind
    \/ CapBindAgain
    \/ CapDisable
    \/ CapEnable
    \/ CapWrite
    \/ CapDispatchNext
    \/ CapCallbackReturn
    \/ CapNotifyReturn
    \/ CapRuleCreate
    \/ CapRuleSetCondition
    \/ CapRuleAdd
    \/ CapRuleAddAgain
    \/ CapRuleEvaluate
    \/ CapRuleConditionReturn
    \/ CapRuleDispatchNext
    \/ CapRuleReturn

SpecCap == Init /\ [][NextCap]_vars

(* ------------------------ claims on binding again ------------------------ *)
NoDuplicates(ids) ==
    \A i, j \in 1 .. Len(ids) : ids[i] = ids[j] => i = j

\* a monitor_bind_action of an id that is bound to the watchpoint returns
\* success and leaves the action list as it was
BindAgainKeepsList ==
    \A k \in 1 .. Len(watchpoint_list) :
        (/\ last' # last
         /\ last'.op = "monitor_bind_action"
         /\ last'.in[1] = watchpoint_list[k].id
         /\ last'.in[2] \in SeqToSet(watchpoint_list[k].action_ids))
           => /\ last'.out = PHYMUTI_SUCCESS
              /\ Len(watchpoint_list') = Len(watchpoint_list)
              /\ watchpoint_list'[k].action_ids = watchpoint_list[k].action_ids

\* a rule_add_action of an id that is in the rule's list returns success and
\* leaves the action list as it was
AddAgainKeepsList ==
    \A k \in 1 .. Len(rule_list) :
        (/\ last' # last
         /\ last'.op = "rule_add_action"
         /\ last'.in[1] = rule_list[k].id
         /\ last'.in[2] \in SeqToSet(rule_list[k].action_ids))
           => /\ last'.out = PHYMUTI_SUCCESS
              /\ Len(rule_list') = Len(rule_list)
              /\ rule_list'[k].action_ids = rule_list[k].action_ids

\* no action list holds an id twice
NoIdTwice ==
    /\ \A k \in 1 .. Len(watchpoint_list) : NoDuplicates(watchpoint_list[k].action_ids)
    /\ \A k \in 1 .. Len(rule_list) : NoDuplicates(rule_list[k].action_ids)

\* a matching access has executed once every id that was bound again
BoundAgainRunsOnce ==
    last_notify.valid =>
        \A i \in 1 .. Len(last_notify.seen) :
            LET w == last_notify.seen[i]
            IN Matches(w, last_notify.ctx) =>
                  \A a \in w.rebound :
                      Executions(last_notify.executed, w, a, last_notify.ctx) = 1

\* when rule_evaluate returns from its loop, every id that was added again
\* has been executed once
AddedAgainRunsOnce ==
    (/\ stack[1] # <<>>
     /\ Head(stack[1]).op = "rule_evaluate"
     /\ Head(stack[1]).pc = "exec"
     /\ Len(stack'[1]) < Len(stack[1]))
       => \A k \in 1 .. Len(rule_list) :
             rule_list[k].id = Head(stack[1]).v.id =>
                \A a \in rule_list[k].rebound :
                    Cardinality({ i \in 1 .. Len(last_notify'.executed) :
                                    last_notify'.executed[i].action_id = a }) = 1

\* C17: monitor_bind_action of an id that is already bound to the watchpoint
\* returns success and leaves the action list unchanged, so that the next
\* matching access executes that action once and not twice; the same holds
\* for rule_add_action and the evaluation of the rule.
C17_BindIdempotent ==
    /\ [] (NoIdTwice /\ BoundAgainRunsOnce)
    /\ [][BindAgainKeepsList /\ AddAgainKeepsList /\ AddedAgainRunsOnce]_vars

(* ------------- binding and unbinding on one watchpoint (SpecBind) -------- *)
\* the action ids handed to monitor_bind_action and monitor_unbind_action
BindIds == 1 .. 3

BindRegionCreate ==
    /\ memory_region_list = <<>>
    /\ memory_region_create(1, NULL, "reg", 0, 8, MEMORY_FLAG_READ + MEMORY_FLAG_WRITE)

BindAdd ==
    /\ watchpoint_list = <<>>
    /\ \E r \in LiveRegionPtrs : monitor_add_watchpoint(1, r, 0, 4, WATCHPOINT_WRITE, 0)

BindBind ==
    \E k \in 1 .. Len(watchpoint_list), a \in BindIds :
        monitor_bind_action(1, watchpoint_list[k].id, a)

BindUnbind ==
    \E k \in 1 .. Len(watchpoint_list), a \in BindIds :
        monitor_unbind_action(1, watchpoint_list[k].id, a)

NextBind ==
    \/ BindRegionCreate
    \/ BindAdd
    \/ BindBind
    \/ BindUnbind

SpecBind == Init /\ [][NextBind]_vars

\* the last call was a successful monitor_unbind_action made right after a
\* successful monitor_bind_action of the same watchpoint and action id
UnbindAfterBind ==
    /\ last.op = "monitor_unbind_action"
    /\ last.out = PHYMUTI_SUCCESS
    /\ last.after_bind

\* the action list of the watchpoint of the last call
ListNow == watchpoint_list[FindWatchpoint(last.in[1])].action_ids

\* the list ids without the id a, the order of the others kept
Without(ids, a) == SelectSeq(ids, LAMBDA x : x # a)

\* C18 as stated: a successful bind_action(wp, a) followed at once by
\* unbind_action(wp, a) leaves the action list of wp, contents and order,
\* equal to what it was before the bind, whatever the list held before.
C18_BindUnbindRestores == UnbindAfterBind => ListNow = last.before

\* C18, amended: a successful bind_action(wp, a) followed at once by
\* unbind_action(wp, a) leaves the action list of wp equal to the list before
\* the bind without a, the order of the other ids kept; it is the list before
\* the bind exactly when a was not bound before the bind.
C18_BindUnbindRemoves ==
    UnbindAfterBind =>
        /\ ListNow = Without(last.before, last.in[2])
        /\ (ListNow = last.before) <=> (last.in[2] \notin SeqToSet(last.before))

\* the pair was applied to a list of two other ids
C18_Witness ==
    /\ UnbindAfterBind
    /\ Len(last.before) = 2
    /\ last.in[2] \notin SeqToSet(last.before)
    /\ ListNow = last.before

(* ------------- ids over many creations, two threads (SpecIds) ------------ *)
\* each registry holds at most one object at a time; objects are created and
\* destroyed by either thread
IdsRegionCreate ==
    /\ memory_region_list = <<>>
    /\ memory_region_create(1, NULL, "reg", 0, 8, MEMORY_FLAG_READ + MEMORY_FLAG_WRITE)

IdsAddWatchpoint ==
    /\ watchpoint_list = <<>>
    /\ \E t \in Threads, r \in LiveRegionPtrs :
          monitor_add_watchpoint(t, r, 0, 4, WATCHPOINT_WRITE, 0)

IdsRemoveWatchpoint ==
    \E t \in Threads, k \in 1 .. Len(watchpoint_list) :
        monitor_remove_watchpoint(t, watchpoint_list[k].id)

IdsActionCreate ==
    /\ action_list = <<>>
    /\ \E t \in Threads : action_create(t, ACTION_TYPE_CALLBACK, 1)

IdsActionDestroy ==
    \E t \in Threads, k \in 1 .. Len(action_list) :
        action_destroy(t, action_list[k].id)

IdsRuleCreate ==
    /\ rule_list = <<>>
    /\ \E t \in Threads : rule_create(t, "rule")

IdsRuleDestroy ==
    \E t \in Threads, k \in 1 .. Len(rule_list) :
        rule_destroy(t, rule_list[k].id)

NextIds ==
    \/ IdsRegionCreate
    \/ IdsAddWatchpoint
    \/ IdsRemoveWatchpoint
    \/ IdsActionCreate
    \/ IdsActionDestroy
    \/ IdsRuleCreate
    \/ IdsRuleDestroy

SpecIds == Init /\ [][NextIds]_vars

\* a step that adds an object to the registry `after` gives it the id `next`,
\* which is at least 1, and moves the counter above it; no step lowers the
\* counter
IdsGrow(before, after, next, next_after) ==
    /\ next_after >= next
    /\ Len(after) > Len(before) =>
          /\ Head(after).id = next
          /\ Head(after).id >= 1
          /\ next_after > next
          /\ last'.out = Head(after).id

\* every counter is above every id of its registry and never 0
IdsBelowCounter ==
    /\ next_watchpoint_id >= 1 /\ next_action_id >= 1 /\ next_rule_id >= 1
    /\ \A k \in 1 .. Len(watchpoint_list) : watchpoint_list[k].id < next_watchpoint_id
    /\ \A k \in 1 .. Len(action_list) : action_list[k].id < next_action_id
    /\ \A k \in 1 .. Len(rule_list) : rule_list[k].id < next_rule_id

\* C20: between init and cleanup every created watchpoint, action and rule
\* gets an id greater than all ids its registry has assigned before, starting
\* at 1; id 0 is never assigned and no id is used again after its object is
\* destroyed, also when the creations are made by several threads.
C20_IdsMonotonic ==
    /\ [] IdsBelowCounter
    /\ [][/\ IdsGrow(watchpoint_list, watchpoint_list',
                     next_watchpoint_id, next_watchpoint_id')
          /\ IdsGrow(action_list, action_list', next_action_id, next_action_id')
          /\ IdsGrow(rule_list, rule_list', next_rule_id, next_rule_id')]_vars

(* --------- bound ids whose action does not exist (SpecLate) -------------- *)
\* the action ids handed to monitor_bind_action
LateIds == 1 .. 3

LateSetup == stack[1] = <<>> /\ naccess = 0

LateRegionCreate ==
    /\ LateSetup
    /\ memory_region_list = <<>>
    /\ memory_region_create(1, NULL, "reg", 0, 8, MEMORY_FLAG_READ + MEMORY_FLAG_WRITE)

\* at most three callback actions are created, so that their ids are 1 .. 3
LateActionCreate ==
    /\ LateSetup
    /\ next_action_id \in LateIds
    /\ action_create(1, ACTION_TYPE_CALLBACK, 1)

\* an action is destroyed by the embedder, or by a callback during a dispatch
LateActionDestroy ==
    /\ naccess = 0 \/ stack[1] # <<>>
    /\ \E k \in 1 .. Len(action_list) : action_destroy(1, action_list[k].id)

LateAdd ==
    /\ LateSetup
    /\ watchpoint_list = <<>>
    /\ \E r \in LiveRegionPtrs : monitor_add_watchpoint(1, r, 0, 4, WATCHPOINT_WRITE, 0)

\* any id is bound, whether it is the id of an action or not
LateBind ==
    /\ LateSetup
    /\ \E k \in 1 .. Len(watchpoint_list), a \in LateIds :
          monitor_bind_action(1, watchpoint_list[k].id, a)

LateWrite ==
    /\ LateSetup
    /\ \E r \in LiveRegionPtrs : memory_typed_access(1, WriteWord, r, 0, 1)

LateDispatchNext == DispatchNext(1)

LateCallbackReturn == \E r \in CallbackResults : ActionCallbackReturn(1, r)

LateNotifyReturn == NotifyReturn(1)

NextLate ==
    \/ LateRegionCreate
    \/ LateActionCreate
    \/ LateActionDestroy
    \/ LateAdd
    \/ LateBind
    \/ LateWrite
    \/ LateDispatchNext
    \/ LateCallbackReturn
    \/ LateNotifyReturn

SpecLate == Init /\ [][NextLate]_vars

\* monitor_bind_action on an existing watchpoint succeeds and the id is bound
\* afterwards, whether an action has that id or not
BindAnyId ==
    \A k \in 1 .. Len(watchpoint_list) :
        (/\ last' # last
         /\ last'.op = "monitor_bind_action"
         /\ last'.in[1] = watchpoint_list[k].id)
           => /\ last'.out = PHYMUTI_SUCCESS
              /\ last'.in[2] \in SeqToSet(watchpoint_list'[k].action_ids)

\* the dispatch loop of thread 1 is about to hand its next entry over
AtDispatch ==
    /\ stack[1] # <<>>
    /\ Head(stack[1]).op = "notify"
    /\ Head(stack[1]).v.i < Len(Head(stack[1]).v.matched)

\* one iteration of the dispatch loop: an id that has an action runs it with
\* the context of the access, an id that has none is passed over, and in both
\* cases the loop goes on to the next entry
DispatchSkipsMissing ==
    (AtDispatch /\ stack' # stack) =>
        LET f == Head(stack[1])
            m == f.v.matched[f.v.i + 1]
            exists == \E k \in 1 .. Len(action_list) : action_list[k].id = m.action_id
            g == stack'[1][Len(stack'[1]) - Len(stack[1]) + 1]
        IN /\ g.op = "notify"
           /\ g.v.i = f.v.i + 1
           /\ g.v.matched = f.v.matched
           /\ IF exists
              THEN /\ Len(stack'[1]) = Len(stack[1]) + 1
                   /\ Head(stack'[1]).op = "action_execute"
                   /\ Head(stack'[1]).v.id = m.action_id
                   /\ Head(stack'[1]).v.ctx = f.v.ctx
              ELSE Len(stack'[1]) = Len(stack[1])

\* the loop ends only after the last entry, and the accessor that made the
\* access then returns success
DispatchEndsInSuccess ==
    (/\ stack[1] # <<>>
     /\ Head(stack[1]).op = "notify"
     /\ Len(stack'[1]) < Len(stack[1]))
       => /\ Head(stack[1]).v.i = Len(Head(stack[1]).v.matched)
          /\ last'.out = PHYMUTI_SUCCESS
          /\ Len(last_notify'.executed) = Len(Head(stack[1]).v.matched)

\* C21: monitor_bind_action succeeds for an action id that does not exist;
\* when the dispatch of a notify comes to a bound id whose action does not
\* exist (never created, or destroyed) the id is passed over, the remaining
\* collected actions are still executed, and the notify returns success.
C21_LateBinding ==
    [][BindAnyId /\ DispatchSkipsMissing /\ DispatchEndsInSuccess]_vars

\* a dispatch has passed over an id without an action and then run a callback
C21_Witness ==
    /\ last_notify.valid
    /\ last.out = PHYMUTI_SUCCESS
    /\ \E i, j \in 1 .. Len(last_notify.executed) :
          /\ i < j
          /\ ~ last_notify.executed[i].ran
          /\ last_notify.executed[j].ran

(* ------------------- the rule engine, one thread (SpecRule) -------------- *)
\* inputs of the rule specification
RlNames == {"high", EMPTY_NAME}
RlActionIds == 1 .. 3
RlValues == {0, 1}

\* the embedder sets the rules up and then makes one evaluation
RlSetup == stack[1] = <<>> /\ last.op # "rule_evaluate"

RlActionCreate ==
    /\ RlSetup
    /\ rule_list = <<>>
    /\ next_action_id <= MaxActions
    /\ action_create(1, ACTION_TYPE_CALLBACK, 1)

RlCreate ==
    /\ RlSetup
    /\ \E name \in RlNames : rule_create(1, name)

RlSetCondition ==
    /\ RlSetup
    /\ \E k \in 1 .. Len(rule_list) : rule_set_condition(1, rule_list[k].id, TRUE)

\* the ids of the actions and one id without an action
RlAddAction ==
    /\ RlSetup
    /\ \E k \in 1 .. Len(rule_list), a \in RlActionIds :
          /\ Len(rule_list[k].action_ids) < 2
          /\ a \notin SeqToSet(rule_list[k].action_ids)
          /\ rule_add_action(1, rule_list[k].id, a)

RlEnable ==
    /\ RlSetup
    /\ \E k \in 1 .. Len(rule_list) : rule_enable(1, rule_list[k].id)

RlDisable ==
    /\ RlSetup
    /\ \E k \in 1 .. Len(rule_list) : rule_disable(1, rule_list[k].id)

RlEvaluate ==
    /\ RlSetup
    /\ \E k \in 1 .. Len(rule_list), v \in RlValues :
          rule_evaluate(1, rule_list[k].id, Context(NULL, 0, 4, v, MEMORY_ACCESS_WRITE))

RlConditionReturn == \E is_match \in BOOLEAN : RuleConditionReturn(1, is_match)

RlDispatchNext == RuleDispatchNext(1)

RlCallbackReturn == \E r \in CallbackResults : ActionCallbackReturn(1, r)

RlReturn == RuleReturn(1)

NextRule ==
    \/ RlActionCreate
    \/ RlCreate
    \/ RlSetCondition
    \/ RlAddAction
    \/ RlEnable
    \/ RlDisable
    \/ RlEvaluate
    \/ RlConditionReturn
    \/ RlDispatchNext
    \/ RlCallbackReturn
    \/ RlReturn

SpecRule == Init /\ [][NextRule]_vars

(* ------------------------ claims on the rule engine ---------------------- *)
RuleNamesUnique ==
    \A i, j \in 1 .. Len(rule_list) :
        rule_list[i].name = rule_list[j].name => i = j

\* a rule_create with an empty name, or with the name of a rule of the list,
\* returns the invalid id and adds no rule
CreateRefusesTakenName ==
    (/\ last' # last
     /\ last'.op = "rule_create"
     /\ \/ last'.in[1] = EMPTY_NAME
        \/ \E k \in 1 .. Len(rule_list) : rule_list[k].name = last'.in[1])
       => /\ last'.out = RULE_INVALID_ID
          /\ rule_list' = rule_list

\* C22: rule_create returns the invalid id 0 and adds no rule when the name
\* is empty or is the name of an existing rule, so that no two rules ever
\* share a name.
C22_RuleNamesUnique == [] RuleNamesUnique /\ [][CreateRefusesTakenName]_vars

\* the rule_evaluate frames of thread 1 that are in their action loop
InActionLoop ==
    { i \in 1 .. Len(stack[1]) :
        stack[1][i].op = "rule_evaluate" /\ stack[1][i].pc = "exec" }

\* C23: a freshly created rule is disabled: until the first rule_enable the
\* rule is not enabled, and a rule_evaluate on it, with a condition that
\* returns true and with actions bound, executes no action.
C23_FreshRuleDisabled ==
    /\ \A k \in 1 .. Len(rule_list) :
          ~ rule_list[k].was_enabled => ~ rule_list[k].enabled
    /\ \A i \in InActionLoop : \A k \in 1 .. Len(rule_list) :
          rule_list[k].id = stack[1][i].v.id => rule_list[k].was_enabled

\* the step is a rule_evaluate that returns at once
EvaluateReturnsAtOnce ==
    /\ stack' = stack
    /\ last' # last
    /\ last'.op = "rule_evaluate"

\* the rule the step's rule_evaluate is applied to exists and is disabled or
\* has no condition
OnIdleRule(id) ==
    \E k \in 1 .. Len(rule_list) :
        /\ rule_list[k].id = id
        /\ ~ rule_list[k].enabled \/ ~ rule_list[k].condition

\* a rule_evaluate on such a rule returns at once with success; it does not
\* get as far as the predicate
IdleRuleIsNoOp ==
    /\ (EvaluateReturnsAtOnce /\ OnIdleRule(last'.in[1]))
          => last'.out = PHYMUTI_SUCCESS
    /\ (/\ Len(stack'[1]) > Len(stack[1])
        /\ Head(stack'[1]).op = "rule_evaluate")
          => ~ OnIdleRule(Head(stack'[1]).v.id)

\* C24: rule_evaluate on an existing rule that is disabled, or that has no
\* condition set, returns success (0), calls no predicate and executes no
\* action.
C24_IdleRuleNoOp == [][IdleRuleIsNoOp]_vars

\* the step is the return of a rule_evaluate of thread 1 from its action loop
ReturnsFromLoop ==
    /\ stack[1] # <<>>
    /\ Head(stack[1]).op = "rule_evaluate"
    /\ Head(stack[1]).pc = "exec"
    /\ Len(stack'[1]) < Len(stack[1])

\* a rule_evaluate that gets past its tests calls the predicate with the
\* given context; when it returns after a true predicate it has run every
\* bound action once, in the order of the list, with that context
PredicateThenAllActions ==
    /\ (/\ Len(stack'[1]) > Len(stack[1])
        /\ Head(stack'[1]).op = "rule_evaluate")
          => /\ Head(stack'[1]).pc = "user"
             /\ Head(stack'[1]).v.i = 0
    /\ ReturnsFromLoop =>
          \A k \in 1 .. Len(rule_list) :
              rule_list[k].id = Head(stack[1]).v.id =>
                 /\ Len(last_notify'.executed) = Len(rule_list[k].action_ids)
                 /\ \A i \in 1 .. Len(last_notify'.executed) :
                       /\ i <= Len(rule_list[k].action_ids)
                       /\ last_notify'.executed[i].action_id = rule_list[k].action_ids[i]
                       /\ last_notify'.executed[i].context = Head(stack[1]).v.ctx

\* C25: rule_evaluate on an enabled rule with a condition calls the predicate
\* once with the given context; if the predicate returns true every bound
\* action is executed exactly once, in the order the actions were added, with
\* that context; if it returns false no action is executed.
C25_EvaluateRunsAll == [][PredicateThenAllActions]_vars

\* the codes other than PHYMUTI_SUCCESS that the callbacks of the entries of
\* e returned, in order
Failures(e) ==
    LET failed == SelectSeq(e, LAMBDA x : x.ran /\ x.ret # PHYMUTI_SUCCESS)
    IN [ i \in 1 .. Len(failed) |-> failed[i].ret ]

\* C26: when the predicate of a rule is true and one of its bound actions
\* returns a failure code, rule_evaluate still executes all the remaining
\* bound actions and then returns the first failure instead of success.
C26_FirstFailureSurfaces ==
    [][ReturnsFromLoop =>
          /\ Len(last_notify'.executed) = Len(Head(stack[1]).v.matched)
          /\ last'.out = IF Failures(last_notify'.executed) = <<>>
                         THEN PHYMUTI_SUCCESS
                         ELSE Head(Failures(last_notify'.executed))]_vars

(* ------- accesses while a rule is ready but not evaluated (SpecNoEval) --- *)
\* the embedder creates two actions, binds the first to a watchpoint and adds
\* the second to a rule, and then makes accesses; it never calls rule_evaluate
NeSetup == stack[1] = <<>> /\ naccess = 0 /\ nnotify = 0

NeCanAccess == stack[1] = <<>> /\ naccess < MaxAccesses /\ nnotify < MaxAccesses

NeRegionCreate ==
    /\ NeSetup
    /\ memory_region_list = <<>>
    /\ memory_region_create(1, NULL, "reg", 0, 8, MEMORY_FLAG_READ + MEMORY_FLAG_WRITE)

NeActionCreate ==
    /\ NeSetup
    /\ next_action_id <= MaxActions
    /\ action_create(1, ACTION_TYPE_CALLBACK, 1)

NeAdd ==
    /\ NeSetup
    /\ watchpoint_list = <<>>
    /\ \E r \in LiveRegionPtrs, ty \in {WATCHPOINT_WRITE, WATCHPOINT_ACCESS} :
          monitor_add_watchpoint(1, r, 0, 4, ty, 0)

\* the first action is bound to the watchpoint
NeBind ==
    /\ NeSetup
    /\ \E k \in 1 .. Len(watchpoint_list) :
          monitor_bind_action(1, watchpoint_list[k].id, 1)

NeRuleCreate ==
    /\ NeSetup
    /\ rule_list = <<>>
    /\ rule_create(1, "high")

NeRuleSetCondition ==
    /\ NeSetup
    /\ \E k \in 1 .. Len(rule_list) :
          /\ ~ rule_list[k].condition
          /\ rule_set_condition(1, rule_list[k].id, TRUE)

\* the second action is added to the rule
NeRuleAddAction ==
    /\ NeSetup
    /\ \E k \in 1 .. Len(rule_list) : rule_add_action(1, rule_list[k].id, 2)

NeRuleEnable ==
    /\ NeSetup
    /\ \E k \in 1 .. Len(rule_list) : rule_enable(1, rule_list[k].id)

NeRuleDisable ==
    /\ NeSetup
    /\ \E k \in 1 .. Len(rule_list) : rule_disable(1, rule_list[k].id)

NeTyped ==
    /\ NeCanAccess
    /\ \E op \in { o \in TypedOps : o.n <= 4 }, r \in LiveRegionPtrs, v \in {0, 1} :
          /\ op.kind = MEMORY_ACCESS_READ => v = 0
          /\ memory_typed_access(1, op, r, 0, v)

NeReadBuffer ==
    /\ NeCanAccess
    /\ \E r \in LiveRegionPtrs : memory_read_buffer(1, r, 0, 3)

NeWriteBuffer ==
    /\ NeCanAccess
    /\ \E r \in LiveRegionPtrs : memory_write_buffer(1, r, 0, <<1, 2, 3>>)

NeNotify ==
    /\ NeCanAccess
    /\ \E r \in LiveRegionPtrs, k \in WpKinds :
          monitor_notify_memory_access(1, r, 0, 4, 1, k)

NeDispatchNext == DispatchNext(1)

NeCallbackReturn == ActionCallbackReturn(1, PHYMUTI_SUCCESS)

NeNotifyReturn == NotifyReturn(1)

NextNoEval ==
    \/ NeRegionCreate
    \/ NeActionCreate
    \/ NeAdd
    \/ NeBind
    \/ NeRuleCreate
    \/ NeRuleSetCondition
    \/ NeRuleAddAction
    \/ NeRuleEnable
    \/ NeRuleDisable
    \/ NeTyped
    \/ NeReadBuffer
    \/ NeWriteBuffer
    \/ NeNotify
    \/ NeDispatchNext
    \/ NeCallbackReturn
    \/ NeNotifyReturn

SpecNoEval == Init /\ [][NextNoEval]_vars

\* the action ids that some rule holds
RuleActionIds ==
    UNION { SeqToSet(rule_list[k].action_ids) : k \in 1 .. Len(rule_list) }

\* every entry of e is a bound action of a watchpoint of seen
FromWatchpoints(e, seen) ==
    \A i \in 1 .. Len(e) :
        \E j \in 1 .. Len(seen) :
            /\ seen[j].id = e[i].wp
            /\ e[i].action_id \in SeqToSet(seen[j].action_ids)

DirTypeNames == {"tmp", "led"}

\* the ops and the user data a class is registered with
DirClasses ==
    { [ops |-> {"create", "destroy"}, user_data |-> 1],
      [ops |-> {}, user_data |-> NULL],
      [ops |-> NULL_OPS, user_data |-> NULL] }

DirRegister ==
    \E t \in Threads, tn \in DirTypeNames, c \in DirClasses :
        device_type_register(t, tn, c.ops, c.user_data)

DirUnregister ==
    \E t \in Threads, tn \in DirTypeNames : device_type_unregister(t, tn)

DirCreate ==
    \E t \in Threads, tn \in DirTypeNames : device_create(t, tn, "room")

DirCreateReturn ==
    \E t \in Threads, r \in CallbackResults : DeviceCreateReturn(t, r)

DirDestroy ==
    \E t \in Threads, d \in DevPtrs : device_destroy(t, d)

DirDestroyReturn == \E t \in Threads : DeviceDestroyReturn(t)

DirFind ==
    \E t \in Threads, nm \in DevNames \cup {NULL_NAME} : device_find_by_name(t, nm)

NextDir ==
    \/ DirRegister
    \/ DirUnregister
    \/ DirCreate
    \/ DirCreateReturn
    \/ DirDestroy
    \/ DirDestroyReturn
    \/ DirFind

SpecDir == Init /\ [][NextDir]_vars

TypeNamesUnique ==
    \A i, j \in 1 .. Len(device_type_list) :
        i # j => device_type_list[i].name # device_type_list[j].name

\* the step is the return of a device_type_register of a registered name, and
\* it returns ALREADY_EXISTS and leaves device_type_list as it was
DuplicateRefused ==
    (/\ last' # last
     /\ last'.op = "device_type_register"
     /\ last'.in[1] # NULL_NAME
     /\ last'.in[2] # NULL_OPS
     /\ FindType(last'.in[1]) # 0)
        => /\ last'.out = PHYMUTI_ERROR_ALREADY_EXISTS
           /\ device_type_list' = device_type_list

\* C28: device_type_register with a name that is already registered returns
\* ALREADY_EXISTS and leaves the existing registration, its ops and user data,
\* unchanged; class names are unique in every reachable state, also when
\* several threads register the same name.
C28_ClassNamesUnique == [] TypeNamesUnique /\ [][DuplicateRefused]_vars

\* a registration of a taken name with other ops and other user data has
\* been refused while two classes were registered
C28_Witness ==
    /\ last.op = "device_type_register"
    /\ last.out = PHYMUTI_ERROR_ALREADY_EXISTS
    /\ Len(device_type_list) = 2
    /\ \E i \in 1 .. Len(device_type_list) :
          /\ device_type_list[i].name = last.in[1]
          /\ device_type_list[i].ops # last.in[2]
          /\ device_type_list[i].user_data # last.in[3]

\* the device structs in the hands of the calls of function op that have not
\* returned
HeldBy(op) ==
    UNION { { stack[t][i].v.dev.ptr :
                i \in { j \in 1 .. Len(stack[t]) : stack[t][j].op = op } } :
            t \in Threads }

\* the step is a return of device_find_by_name
FindReturns == last' # last /\ last'.op = "device_find_by_name"

PendingNotListed == ListedDevPtrs \cap HeldBy("device_create") = {}

\* the step is thread t's return from a create hook that failed, and the
\* call returns no handle, leaves the directory as it was and frees the device
FailedCreateLeavesNothing ==
    \A t \in Threads :
        (/\ stack[t] # <<>>
         /\ Head(stack[t]).op = "device_create"
         /\ stack'[t] = Tail(stack[t])
         /\ last'.in[3] # PHYMUTI_SUCCESS)
            => /\ last'.out = NULL
               /\ device_list' = device_list
               /\ Head(stack[t]).v.dev.ptr \notin
                     { device_list'[i].ptr : i \in 1 .. Len(device_list') }

\* a lookup returns NULL or a device of the directory, never one whose create
\* hook has not returned
FindNeverSeesPending ==
    FindReturns =>
        \/ last'.out = NULL
        \/ /\ last'.out \in ListedDevPtrs
           /\ last'.out \notin HeldBy("device_create")

\* C29: when the class create hook returns non-success, device_create returns
\* no handle and the instance is never observable: it is not in the directory
\* before, during or after the failed create, no device_find_by_name returns
\* it, and the failed create leaves the name as available as it was.
C29_FailedCreateInvisible ==
    [] PendingNotListed /\ [][FailedCreateLeavesNothing /\ FindNeverSeesPending]_vars

\* a device_create whose create hook failed has returned NULL and the name is
\* free
C29_Witness ==
    /\ last.op = "device_create"
    /\ Len(last.in) = 3
    /\ last.in[3] # PHYMUTI_SUCCESS
    /\ last.out = NULL
    /\ FindDeviceByName(last.in[2]) = 0

\* a device whose destroy hook is running is out of the directory, and no
\* device has two destroy hooks running
DestroyingNotListed ==
    /\ ListedDevPtrs \cap HeldBy("device_destroy") = {}
    /\ \A t, u \in Threads : \A i \in 1 .. Len(stack[t]), j \in 1 .. Len(stack[u]) :
          (/\ stack[t][i].op = "device_destroy"
           /\ stack[u][j].op = "device_destroy"
           /\ stack[t][i].v.dev.ptr = stack[u][j].v.dev.ptr)
              => (t = u /\ i = j)

\* the step takes a device out of the directory, and no device of its name
\* is left in the directory
DestroyRemovesName ==
    \A k \in 1 .. Len(device_list) :
        device_list[k].ptr \notin { device_list'[i].ptr : i \in 1 .. Len(device_list') }
            => \A i \in 1 .. Len(device_list') :
                  device_list'[i].name # device_list[k].name

\* a lookup never returns a device that device_destroy has taken, and returns
\* NULL when the directory holds no device of this name
FindNeverSeesDestroyed ==
    FindReturns =>
        /\ last'.out \notin HeldBy("device_destroy")
        /\ FindDeviceByName(last'.in[1]) = 0 => last'.out = NULL

\* the step is a device_destroy of a handle that is not in the directory (it
\* is being destroyed, or was destroyed), and it returns DEVICE_NOT_FOUND
\* without calling the destroy hook
SecondDestroyFails ==
    (/\ last' # last
     /\ last'.op = "device_destroy"
     /\ last'.in[1] \notin ListedDevPtrs \cup {NULL}
     /\ \A t \in Threads : Len(stack'[t]) >= Len(stack[t]))
        => /\ last'.out = PHYMUTI_ERROR_DEVICE_NOT_FOUND
           /\ stack' = stack

\* C30: device_destroy removes the instance from the directory before the
\* class destroy hook is called: from that step on the directory holds no
\* device of its name, so a device_find_by_name for the name issued during or
\* after the hook returns not found, and never the instance; a second
\* device_destroy of the handle, concurrent or later, returns an error and
\* calls no hook.
C30_DestroyUnlinksFirst ==
    /\ [] DestroyingNotListed
    /\ [][DestroyRemovesName /\ FindNeverSeesDestroyed /\ SecondDestroyFails]_vars

(* ------------------ region names under threads (SpecRegion) ------------- *)
\* inputs of the region directory specification
RegDevices == {1, 2}

RegNames == {"reg", "aux"}

RegCreate ==
    \E t \in Threads, d \in RegDevices, nm \in RegNames \cup {NULL_NAME} :
        memory_region_create(t, d, nm, 0, 4, MEMORY_FLAG_READ + MEMORY_FLAG_WRITE)

RegDestroy ==
    \E t \in Threads, r \in RegionPtrs : memory_region_destroy(t, r)

RegFind ==
    \E t \in Threads, d \in RegDevices \cup {NULL}, nm \in RegNames :
        memory_region_find(t, d, nm)

NextRegion ==
    \/ RegCreate
    \/ RegDestroy
    \/ RegFind

SpecRegion == Init /\ [][NextRegion]_vars

RegionNamesUniquePerDevice ==
    \A i, j \in 1 .. Len(memory_region_list) :
        (/\ i # j
         /\ memory_region_list[i].device = memory_region_list[j].device)
            => memory_region_list[i].name # memory_region_list[j].name

\* the step is the return of a memory_region_create for a device that has a
\* region of this name, and it returns NULL and adds nothing
SameNameRefused ==
    (/\ last' # last
     /\ last'.op = "memory_region_create"
     /\ \E i \in 1 .. Len(memory_region_list) :
           /\ memory_region_list[i].device = last'.in[1]
           /\ memory_region_list[i].name = last'.in[2])
        => /\ last'.out = NULL
           /\ memory_region_list' = memory_region_list

\* C31: memory_region_create fails when the owning device already has a live
\* region of the same name, so no two regions of one device share a name in
\* any reachable state (regions of different devices may).
C31_RegionNamesPerDevice ==
    [] RegionNamesUniquePerDevice /\ [][SameNameRefused]_vars

(* ------------- the order of the actions of a notify (SpecOrder) --------- *)
\* the embedder creates two actions, adds two watchpoints on one range, binds
\* and unbinds the actions in any order and then makes one access
OrdSetup == stack[1] = <<>> /\ naccess = 0 /\ nnotify = 0

OrdRegionCreate ==
    /\ OrdSetup
    /\ memory_region_list = <<>>
    /\ memory_region_create(1, NULL, "reg", 0, 8, MEMORY_FLAG_READ + MEMORY_FLAG_WRITE)

OrdActionCreate ==
    /\ OrdSetup
    /\ next_action_id <= MaxActions
    /\ action_create(1, ACTION_TYPE_CALLBACK, 1)

OrdAdd ==
    /\ OrdSetup
    /\ Len(watchpoint_list) < MaxWatchpoints
    /\ \E r \in LiveRegionPtrs, ty \in {WATCHPOINT_WRITE, WATCHPOINT_READ} :
          monitor_add_watchpoint(1, r, 0, 4, ty, 0)

OrdBind ==
    /\ OrdSetup
    /\ \E k \in 1 .. Len(watchpoint_list), a \in 1 .. MaxActions :
          /\ a \notin SeqToSet(watchpoint_list[k].action_ids)
          /\ monitor_bind_action(1, watchpoint_list[k].id, a)

OrdUnbind ==
    /\ OrdSetup
    /\ \E k \in 1 .. Len(watchpoint_list), a \in 1 .. MaxActions :
          /\ a \in SeqToSet(watchpoint_list[k].action_ids)
          /\ monitor_unbind_action(1, watchpoint_list[k].id, a)

OrdAccess ==
    /\ OrdSetup
    /\ \E op \in { o \in TypedOps : o.n = 4 }, r \in LiveRegionPtrs :
          memory_typed_access(1, op, r, 0, 0)

OrdDispatchNext == DispatchNext(1)

OrdCallbackReturn == ActionCallbackReturn(1, PHYMUTI_SUCCESS)

OrdNotifyReturn == NotifyReturn(1)

NextOrder ==
    \/ OrdRegionCreate
    \/ OrdActionCreate
    \/ OrdAdd
    \/ OrdBind
    \/ OrdUnbind
    \/ OrdAccess
    \/ OrdDispatchNext
    \/ OrdCallbackReturn
    \/ OrdNotifyReturn

SpecOrder == Init /\ [][NextOrder]_vars

\* the position of the watchpoint with this id in a walk over seen
WalkPos(seen, id) == CHOOSE j \in 1 .. Len(seen) : seen[j].id = id

\* the position of action id a in the bound actions of watchpoint seen[j]
BindPos(seen, j, a) ==
    CHOOSE k \in 1 .. Len(seen[j].action_ids) : seen[j].action_ids[k] = a

\* the entries of e are in walk order: by the position of their watchpoint in
\* seen, and within one watchpoint by the position of the action in its list
InWalkOrder(e, seen) ==
    \A i, j \in 1 .. Len(e) :
        i < j =>
            \/ WalkPos(seen, e[i].wp) < WalkPos(seen, e[j].wp)
            \/ /\ e[i].wp = e[j].wp
               /\ BindPos(seen, WalkPos(seen, e[i].wp), e[i].action_id)
                     < BindPos(seen, WalkPos(seen, e[j].wp), e[j].action_id)

\* the step adds a watchpoint, and the new one is the first of the list
AddPrepends ==
    Len(watchpoint_list') > Len(watchpoint_list)
        => /\ Tail(watchpoint_list') = watchpoint_list
           /\ \A k \in 1 .. Len(watchpoint_list) :
                 watchpoint_list[k].id # watchpoint_list'[1].id

\* the step binds an action to a watchpoint, and the new id is the last of
\* the watchpoint's list
BindAppends ==
    \A k \in 1 .. Len(watchpoint_list) :
        (/\ Len(watchpoint_list') = Len(watchpoint_list)
         /\ Len(watchpoint_list'[k].action_ids) > Len(watchpoint_list[k].action_ids))
            => /\ last'.op = "monitor_bind_action"
               /\ watchpoint_list'[k].action_ids =
                     Append(watchpoint_list[k].action_ids, last'.in[2])

\* C32: within one notify the matched actions are executed in walk order:
\* watchpoints newest first (a new watchpoint is put in front of the list),
\* within one watchpoint in the order the actions were bound, and all actions
\* of one watchpoint before any action of the next.
C32_WalkOrder ==
    /\ [][AddPrepends /\ BindAppends]_vars
    /\ [] /\ last_notify.valid => InWalkOrder(last_notify.executed, last_notify.seen)
          /\ \A i \in 1 .. Len(stack[1]) :
                stack[1][i].op = "notify" =>
                   InWalkOrder(stack[1][i].v.executed, stack[1][i].v.seen)

\* a notify has executed two actions of the newer watchpoint and then two of
\* the older one, bound in different orders
C32_Witness ==
    /\ last_notify.valid
    /\ Len(last_notify.executed) = 4
    /\ Len(last_notify.seen) = 2
    /\ last_notify.seen[1].action_ids # last_notify.seen[2].action_ids
    /\ last_notify.executed[1].wp = last_notify.seen[1].id
    /\ last_notify.executed[3].wp = last_notify.seen[2].id

(* -------- a rule changed while it is being evaluated (SpecSnap) --------- *)
\* the embedder creates two actions and a rule, adds up to MaxBind action ids
\* to it and evaluates it; the predicate or an action callback changes the
\* rule once during the evaluation
SnapSetup == stack[1] = <<>> /\ last.op # "rule_evaluate"

\* thread 1 is in the predicate or in an action callback of a rule_evaluate
\* of a rule that has not been changed since the evaluation began
SnapDuring ==
    /\ stack[1] # <<>>
    /\ Head(stack[1]).pc = "user"
    /\ LET f == stack[1][Len(stack[1])]
       IN /\ f.op = "rule_evaluate"
          /\ FindRule(f.v.id) # 0
          /\ rule_list[FindRule(f.v.id)].action_ids = f.v.bound

SnapActionCreate ==
    /\ SnapSetup
    /\ rule_list = <<>>
    /\ next_action_id <= MaxActions
    /\ action_create(1, ACTION_TYPE_CALLBACK, 1)

SnapRuleCreate ==
    /\ SnapSetup
    /\ next_action_id > MaxActions
    /\ rule_list = <<>>
    /\ rule_create(1, "rule")

SnapSetCondition ==
    /\ SnapSetup
    /\ \E k \in 1 .. Len(rule_list) :
          /\ ~ rule_list[k].condition
          /\ rule_list[k].action_ids = <<>>
          /\ rule_set_condition(1, rule_list[k].id, TRUE)

\* the next id (1, 2, ...) is added to the rule
SnapAdd ==
    /\ SnapSetup
    /\ \E k \in 1 .. Len(rule_list) :
          /\ rule_list[k].condition
          /\ Len(rule_list[k].action_ids) < MaxBind
          /\ rule_add_action(1, rule_list[k].id, Len(rule_list[k].action_ids) + 1)

SnapEvaluate ==
    /\ SnapSetup
    /\ \E k \in 1 .. Len(rule_list) :
          /\ rule_list[k].condition
          /\ rule_evaluate(1, rule_list[k].id,
                           Context(NULL, 0, 4, 1, MEMORY_ACCESS_WRITE))

\* user code of the evaluation removes the first or the last id of the rule
SnapRemoveDuring ==
    /\ SnapDuring
    /\ \E k \in 1 .. Len(rule_list) :
          /\ rule_list[k].action_ids # <<>>
          /\ \E a \in {rule_list[k].action_ids[1],
                       rule_list[k].action_ids[Len(rule_list[k].action_ids)]} :
                rule_remove_action(1, rule_list[k].id, a)

\* user code of the evaluation adds one more id to the rule
SnapAddDuring ==
    /\ SnapDuring
    /\ \E k \in 1 .. Len(rule_list) :
          rule_add_action(1, rule_list[k].id, Len(rule_list[k].action_ids) + 1)

\* user code of the evaluation destroys the rule
SnapDestroyDuring ==
    /\ SnapDuring
    /\ \E k \in 1 .. Len(rule_list) : rule_destroy(1, rule_list[k].id)

SnapConditionReturn == \E is_match \in BOOLEAN : RuleConditionReturn(1, is_match)

SnapDispatchNext == RuleDispatchNext(1)

SnapCallbackReturn == ActionCallbackReturn(1, PHYMUTI_SUCCESS)

SnapReturn == RuleReturn(1)

NextSnap ==
    \/ SnapActionCreate
    \/ SnapRuleCreate
    \/ SnapSetCondition
    \/ SnapAdd
    \/ SnapEvaluate
    \/ SnapRemoveDuring
    \/ SnapAddDuring
    \/ SnapDestroyDuring
    \/ SnapConditionReturn
    \/ SnapDispatchNext
    \/ SnapCallbackReturn
    \/ SnapReturn

SpecSnap == Init /\ [][NextSnap]_vars

\* the action ids of the entries of e, in order
IdsOf(e) == [ i \in 1 .. Len(e) |-> e[i].action_id ]

\* the step is the return of a rule_evaluate from its action loop, and the
\* ids it has handed to action_execute are the ids the rule had when the
\* evaluation began
ExecutedAreBoundAtStart ==
    ReturnsFromLoop => IdsOf(Head(stack[1]).v.executed) = Head(stack[1]).v.bound

\* the ids of a rule_evaluate in progress are those copied at its beginning,
\* whatever the rule holds now
CopyIsFixed ==
    \A i \in 1 .. Len(stack[1]) :
        stack[1][i].op = "rule_evaluate" =>
            /\ IdsOf(stack[1][i].v.matched) = stack[1][i].v.bound
            /\ IdsOf(stack[1][i].v.executed) =
                  SubSeq(stack[1][i].v.bound, 1, stack[1][i].v.i)

\* C33: rule_evaluate copies the rule's action ids before it calls the
\* predicate: when the predicate or an executed action adds or removes
\* actions of the rule, or destroys it, the actions executed by this
\* evaluation are exactly those bound when the evaluation began.
C33_EvaluateSnapshot == [] CopyIsFixed /\ [][ExecutedAreBoundAtStart]_vars

(* ------------- the instance during its create hook (SpecDir) ------------ *)
PendingListed == HeldBy("device_create") \subseteq ListedDevPtrs

\* the step is a return of device_find_by_name for the name of an instance
\* whose create hook is running, and it returns an instance
FindInCreateHookFindsIt ==
    (/\ FindReturns
     /\ \E t \in Threads : \E i \in 1 .. Len(stack[t]) :
           /\ stack[t][i].op = "device_create"
           /\ stack[t][i].v.dev.name = last'.in[1])
        => last'.out # NULL

\* the step is thread t's return from a create hook that failed, and the
\* instance is not in the directory afterwards
FailedCreateRemoved ==
    \A t \in Threads :
        (/\ stack[t] # <<>>
         /\ Head(stack[t]).op = "device_create"
         /\ stack'[t] = Tail(stack[t])
         /\ last'.out = NULL)
            => Head(stack[t]).v.dev.ptr \notin
                  { device_list'[i].ptr : i \in 1 .. Len(device_list') }

\* C34: device_create inserts the new instance into the directory before it
\* calls the class create hook, so the instance is in the directory while
\* its create hook runs, and removes it again when the hook fails.
C34_InsertBeforeCreate ==
    [] PendingListed /\ [][FindInCreateHookFindsIt /\ FailedCreateRemoved]_vars

(* ------------------ wrap-around of addr + size (SpecMem) ---------------- *)
RegionsDoNotOverflow ==
    \A i \in 1 .. Len(memory_region_list) :
        memory_region_list[i].base_addr + memory_region_list[i].size < AddrMod

\* the last call was an access whose addr + size is beyond the largest
\* address, and it was not accepted
WrappingAccessRefused ==
    (/\ last.op \in TypedNames \cup BufferNames
     /\ last.in.addr + last.in.n >= AddrMod)
        => last.out # PHYMUTI_SUCCESS

\* C35: in the width of uint64_t, base + size of every live region does not
\* overflow, and an access whose addr + size wraps is never accepted by the
\* range check as in range.
C35_NoWrapAround == RegionsDoNotOverflow /\ WrappingAccessRefused

(* -------------- calls that wait for a registry mutex (SpecLive) --------- *)
\* lookups of the device, action and rule registries, with the mutex each
\* takes
Lookups ==
    { [name |-> "device_find_by_name", mutex |-> "device_mutex"],
      [name |-> "action_get_type", mutex |-> "action_mutex"],
      [name |-> "rule_find_by_name", mutex |-> "rule_mutex"] }

\* what the lookup returns for the device "room", the action 1 and the
\* rule "rule"
LookupResult(name) ==
    CASE name = "device_find_by_name" ->
            IF FindDeviceByName("room") = 0 THEN NULL
            ELSE device_list[FindDeviceByName("room")].ptr
      [] name = "action_get_type" ->
            IF FindAction(1) = 0 THEN PHYMUTI_ERROR_ACTION_NOT_FOUND
            ELSE PHYMUTI_SUCCESS
      [] OTHER ->
            IF \E i \in 1 .. Len(rule_list) : rule_list[i].name = "rule"
            THEN rule_list[IndexOf(rule_list, LAMBDA r : r.name = "rule")].id
            ELSE RULE_INVALID_ID

\* thread t calls lookup c from user code: when the mutex can be taken the
\* call runs to its return, otherwise the thread stays in pthread_mutex_lock
lookup_call(t, c) ==
    /\ CanCall(t)
    /\ IF CanLock(c.mutex, t)
       THEN /\ mutex' = Unlock(Lock(mutex, c.mutex, t), c.mutex, t)
            /\ last' = Returned(c.name, <<>>, LookupResult(c.name))
            /\ UNCHANGED stack
       ELSE /\ stack' = Push(t, [op |-> c.name, pc |-> "lock",
                                 v |-> [mutex |-> c.mutex]])
            /\ UNCHANGED <<mutex, last>>
    /\ UNCHANGED <<devVars, memVars, monVars, actVars, ruleVars, last_notify, nnotify>>

\* the pthread_mutex_lock thread t waits in returns, and the lookup runs to
\* its return
LookupAcquire(t) ==
    /\ stack[t] # <<>>
    /\ Head(stack[t]).pc = "lock"
    /\ CanLock(Head(stack[t]).v.mutex, t)
    /\ mutex' = Unlock(Lock(mutex, Head(stack[t]).v.mutex, t), Head(stack[t]).v.mutex, t)
    /\ stack' = [stack EXCEPT ![t] = Tail(@)]
    /\ last' = Returned(Head(stack[t]).op, <<>>, LookupResult(Head(stack[t]).op))
    /\ UNCHANGED <<devVars, memVars, monVars, actVars, ruleVars, last_notify, nnotify>>

\* the embedder registers a class with a create hook, creates an action and
\* a rule with a condition and this action; then both threads evaluate the
\* rule, execute the action, create devices and make lookups, from their own
\* code and from inside the predicate, the action callback and the create hook
LvDepth == 1

LvContext == Context(NULL, 0, 4, 1, MEMORY_ACCESS_WRITE)

LvSetup == \A t \in Threads : stack[t] = <<>>

LvReady ==
    /\ device_type_list # <<>>
    /\ rule_list # <<>>
    /\ rule_list[1].action_ids # <<>>

\* thread t is in its own code; action_execute is also called from a callback
LvCanCall(t) == Len(stack[t]) < LvDepth

LvRegister ==
    /\ LvSetup
    /\ device_type_list = <<>>
    /\ device_type_register(1, "tmp", {"create"}, NULL)

LvActionCreate ==
    /\ LvSetup
    /\ device_type_list # <<>>
    /\ action_list = <<>>
    /\ action_create(1, ACTION_TYPE_CALLBACK, 1)

LvRuleCreate ==
    /\ LvSetup
    /\ action_list # <<>>
    /\ rule_list = <<>>
    /\ rule_create(1, "rule")

LvSetCondition ==
    /\ LvSetup
    /\ \E k \in 1 .. Len(rule_list) :
          /\ ~ rule_list[k].condition
          /\ rule_set_condition(1, rule_list[k].id, TRUE)

LvAddAction ==
    /\ LvSetup
    /\ \E k \in 1 .. Len(rule_list) :
          /\ rule_list[k].condition
          /\ rule_list[k].action_ids = <<>>
          /\ rule_add_action(1, rule_list[k].id, 1)

LvEvaluate ==
    /\ LvReady
    /\ \E t \in Threads : LvCanCall(t) /\ rule_evaluate(t, rule_list[1].id, LvContext)

LvExecute ==
    /\ LvReady
    /\ \E t \in Threads : Len(stack[t]) <= LvDepth /\ action_execute(t, 1, LvContext)

LvDeviceCreate ==
    /\ LvReady
    /\ \E t \in Threads :
          /\ LvCanCall(t)
          /\ device_list = <<>>
          /\ device_create(t, "tmp", "room")

LvLookup ==
    /\ LvReady
    /\ \E t \in Threads, c \in Lookups : lookup_call(t, c)

\* the steps of thread t that return from user code or go on in an API call
LvContinue(t) ==
    \/ LookupAcquire(t)
    \/ \E is_match \in BOOLEAN : RuleConditionReturn(t, is_match)
    \/ RuleDispatchNext(t)
    \/ RuleReturn(t)
    \/ ActionCallbackReturn(t, PHYMUTI_SUCCESS)
    \/ DeviceCreateReturn(t, PHYMUTI_SUCCESS)
    \/ DeviceCreateReturn(t, PHYMUTI_ERROR_INVALID_PARAM)

LvStep == \E t \in Threads : LvContinue(t)

NextLive ==
    \/ LvRegister
    \/ LvActionCreate
    \/ LvRuleCreate
    \/ LvSetCondition
    \/ LvAddAction
    \/ LvEvaluate
    \/ LvExecute
    \/ LvDeviceCreate
    \/ LvLookup
    \/ LvStep

\* every user callback returns, and a thread that waits for a mutex which
\* is free again and again gets it: at each depth of calls, the steps of a
\* thread that are possible again and again are taken
SpecLive ==
    /\ Init
    /\ [][NextLive]_vars
    /\ \A t \in Threads : \A d \in 1 .. (LvDepth + 2) :
          SF_vars(LvContinue(t) /\ Len(stack[t]) = d)

FxSetup == stack[1] = <<>> /\ naccess = 0

FxInCallback == stack[1] # <<>> /\ Head(stack[1]).op = "action_execute"

FxRegionCreate ==
    /\ FxSetup
    /\ memory_region_list = <<>>
    /\ memory_region_create(1, NULL, "reg", 0, 8, MEMORY_FLAG_READ + MEMORY_FLAG_WRITE)

FxActionCreate ==
    /\ FxSetup
    /\ memory_region_list # <<>>
    /\ next_action_id <= MaxActions
    /\ action_create(1, ACTION_TYPE_CALLBACK, 1)

FxAdd ==
    /\ FxSetup
    /\ next_action_id > MaxActions
    /\ Len(watchpoint_list) < MaxWatchpoints
    /\ \E r \in LiveRegionPtrs : monitor_add_watchpoint(1, r, 0, 4, WATCHPOINT_WRITE, 0)

FxBind ==
    /\ FxSetup
    /\ \E k \in 1 .. Len(watchpoint_list), a \in 1 .. MaxActions :
          /\ a \notin SeqToSet(watchpoint_list[k].action_ids)
          /\ monitor_bind_action(1, watchpoint_list[k].id, a)

FxWrite ==
    /\ stack[1] = <<>>
    /\ naccess < MonAccesses
    /\ \E r \in LiveRegionPtrs : memory_typed_access(1, WriteWord, r, 0, 1)

FxDisable ==
    /\ FxInCallback
    /\ \E k \in 1 .. Len(watchpoint_list) :
          monitor_disable_watchpoint(1, watchpoint_list[k].id)

FxRemove ==
    /\ FxInCallback
    /\ \E k \in 1 .. Len(watchpoint_list) :
          monitor_remove_watchpoint(1, watchpoint_list[k].id)

FxUnbind ==
    /\ FxInCallback
    /\ \E k \in 1 .. Len(watchpoint_list), a \in 1 .. MaxActions :
          /\ a \in SeqToSet(watchpoint_list[k].action_ids)
          /\ monitor_unbind_action(1, watchpoint_list[k].id, a)

FxDispatchNext == DispatchNext(1)

FxCallbackReturn == ActionCallbackReturn(1, PHYMUTI_SUCCESS)

FxNotifyReturn == NotifyReturn(1)

NextFixed ==
    \/ FxRegionCreate
    \/ FxActionCreate
    \/ FxAdd
    \/ FxBind
    \/ FxWrite
    \/ FxDisable
    \/ FxRemove
    \/ FxUnbind
    \/ FxDispatchNext
    \/ FxCallbackReturn
    \/ FxNotifyReturn

SpecFixed == Init /\ [][NextFixed]_vars

\* entry m of a walk without the watchpoint it was recorded with
Collected(m) == [action_id |-> m.action_id, context |-> m.context]

\* a notify that goes on keeps the entries it collected in its walk
MatchedKept ==
    \A i \in 1 .. Len(stack[1]) :
        (stack[1][i].op = "notify" /\ Len(stack'[1]) >= Len(stack[1]) - i + 1)
           => LET g == stack'[1][Len(stack'[1]) - Len(stack[1]) + i]
              IN /\ g.op = "notify"
                 /\ g.v.matched = stack[1][i].v.matched

\* one iteration of the dispatch loop runs the callback of the next
\* collected entry, whatever watchpoint_list holds by then
NextCollectedRuns ==
    (AtDispatch /\ stack' # stack) =>
        LET f == Head(stack[1])
            m == f.v.matched[f.v.i + 1]
        IN /\ Len(stack'[1]) = Len(stack[1]) + 1
           /\ Head(stack'[1]).op = "action_execute"
           /\ Head(stack'[1]).v.id = m.action_id
           /\ Head(stack'[1]).v.ctx = m.context
           /\ stack'[1][2].v.i = f.v.i + 1

\* a finished notify has run exactly the entries of its walk: those of the
\* watchpoints that matched when the walk was made
RanWhatWasCollected ==
    last_notify.valid =>
        /\ Len(last_notify.executed) =
              Len(Collect(last_notify.seen, last_notify.ctx, <<>>))
        /\ \A k \in 1 .. Len(last_notify.executed) :
              /\ last_notify.executed[k].ran
              /\ Collected(last_notify.executed[k]) =
                    Collected(Collect(last_notify.seen, last_notify.ctx, <<>>)[k])

\* an access walks the list as it is when the access is made
WalkSeesChanges ==
    (naccess' = naccess + 1 /\ last'.out = PHYMUTI_SUCCESS /\ stack' = stack)
        => ~ \E k \in 1 .. Len(watchpoint_list) :
                /\ watchpoint_list[k].enabled
                /\ watchpoint_list[k].action_ids # <<>>

\* C37: the actions a notify executes are fixed when its walk ends: when a
\* callback of the dispatch disables or removes a matched watchpoint or
\* unbinds one of its actions, the entries collected for that watchpoint are
\* still executed for the access in progress, and the change is seen only by
\* the walk of a later access.
C37_DispatchFixed ==
    /\ [] RanWhatWasCollected
    /\ [][MatchedKept /\ NextCollectedRuns /\ WalkSeesChanges]_vars

\* the collected entry m is no longer what a walk would collect: its
\* watchpoint is removed or disabled, or its action is unbound
Stale(m) ==
    \/ FindWatchpoint(m.wp) = 0
    \/ ~ watchpoint_list[FindWatchpoint(m.wp)].enabled
    \/ m.action_id \notin SeqToSet(watchpoint_list[FindWatchpoint(m.wp)].action_ids)

\* the first notify has run the callbacks of three entries that were stale
\* by then: its callbacks have removed one watchpoint and disabled the other
C37_Witness ==
    /\ last_notify.valid
    /\ naccess = 1
    /\ Len(last_notify.executed) = 4
    /\ \A j \in 2 .. 4 : last_notify.executed[j].ran /\ Stale(last_notify.executed[j])
    /\ Len(watchpoint_list) = 1
    /\ ~ watchpoint_list[1].enabled

(* ------------- a write made by an action callback (SpecNested) ---------- *)
\* the embedder creates two actions, adds two write watchpoints, each on the
\* word at 0 or on the word at 4, binds the actions and writes 1 to the word
\* at 0; the callbacks of the dispatch write 2 to the word at 4
NestSetup == stack[1] = <<>> /\ naccess = 0

NestRegionCreate ==
    /\ NestSetup
    /\ memory_region_list = <<>>
    /\ memory_region_create(1, NULL, "reg", 0, 8, MEMORY_FLAG_READ + MEMORY_FLAG_WRITE)

NestActionCreate ==
    /\ NestSetup
    /\ memory_region_list # <<>>
    /\ next_action_id <= MaxActions
    /\ action_create(1, ACTION_TYPE_CALLBACK, 1)

NestAdd ==
    /\ NestSetup
    /\ next_action_id > MaxActions
    /\ Len(watchpoint_list) < MaxWatchpoints
    /\ \E r \in LiveRegionPtrs, a \in {0, 4} :
          monitor_add_watchpoint(1, r, a, 4, WATCHPOINT_WRITE, 0)

NestBind ==
    /\ NestSetup
    /\ \E k \in 1 .. Len(watchpoint_list), a \in 1 .. MaxActions :
          /\ a \notin SeqToSet(watchpoint_list[k].action_ids)
          /\ monitor_bind_action(1, watchpoint_list[k].id, a)

NestOuterWrite ==
    /\ NestSetup
    /\ \E r \in LiveRegionPtrs : memory_typed_access(1, WriteWord, r, 0, 1)

NestInnerWrite ==
    /\ stack[1] # <<>>
    /\ naccess <= MonAccesses
    /\ \E r \in LiveRegionPtrs : memory_typed_access(1, WriteWord, r, 4, 2)

NestDispatchNext == DispatchNext(1)

NestCallbackReturn == ActionCallbackReturn(1, PHYMUTI_SUCCESS)

NestNotifyReturn == NotifyReturn(1)

NextNested ==
    \/ NestRegionCreate
    \/ NestActionCreate
    \/ NestAdd
    \/ NestBind
    \/ NestOuterWrite
    \/ NestInnerWrite
    \/ NestDispatchNext
    \/ NestCallbackReturn
    \/ NestNotifyReturn

SpecNested == Init /\ [][NextNested]_vars

\* the context of the write made by a callback
InnerContext == Context(memory_region_list[1].ptr, 4, 4, 2, MEMORY_ACCESS_WRITE)

\* a write made by a callback stores its value and walks the list: when
\* something matches, a new dispatch is entered on top of the callback
InnerWriteWalks ==
    (stack[1] # <<>> /\ naccess' = naccess + 1) =>
        /\ LoadLE(memory_region_list'[1].data, 4, 4) = 2
        /\ IF Collect(watchpoint_list, InnerContext, <<>>) = <<>>
           THEN stack' = stack
           ELSE /\ Tail(stack'[1]) = stack[1]
                /\ Head(stack'[1]).op = "notify"
                /\ Head(stack'[1]).v.ctx = InnerContext
                /\ Head(stack'[1]).v.i = 0
                /\ Head(stack'[1]).v.matched =
                      Collect(watchpoint_list, InnerContext, <<>>)

\* a dispatch under a callback stays at the action whose callback it is, and
\* every entry of a dispatch carries the context of the access that made it
OuterWaits ==
    \A i \in 1 .. Len(stack[1]) :
        stack[1][i].op = "notify" =>
            /\ \A k \in 1 .. Len(stack[1][i].v.matched) :
                  stack[1][i].v.matched[k].context = stack[1][i].v.ctx
            /\ i > 1 =>
                  /\ stack[1][i].v.i >= 1
                  /\ stack[1][i - 1].op = "action_execute"
                  /\ stack[1][i - 1].v.id =
                        stack[1][i].v.matched[stack[1][i].v.i].action_id
                  /\ stack[1][i - 1].v.ctx = stack[1][i].v.ctx

\* the frames under the innermost one do not move: a dispatch that is not
\* the innermost frame keeps its position in its loop, its entries and its
\* context
OuterUntouched ==
    \A i \in 2 .. Len(stack[1]) :
        (stack[1][i].op = "notify" /\ Len(stack'[1]) >= Len(stack[1]) - i + 1)
           => LET g == stack'[1][Len(stack'[1]) - Len(stack[1]) + i]
              IN /\ g.op = "notify"
                 /\ g.v.i = stack[1][i].v.i
                 /\ g.v.matched = stack[1][i].v.matched
                 /\ g.v.ctx = stack[1][i].v.ctx

\* a dispatch ends only when the callback of each of its entries has run
\* and returned
InnerCompletes ==
    (/\ stack[1] # <<>>
     /\ Head(stack[1]).op = "notify"
     /\ Len(stack'[1]) < Len(stack[1]))
       => /\ Head(stack[1]).v.i = Len(Head(stack[1]).v.matched)
          /\ Len(Head(stack[1]).v.executed) = Len(Head(stack[1]).v.matched)
          /\ \A k \in 1 .. Len(Head(stack[1]).v.executed) :
                Head(stack[1]).v.executed[k].ran
          /\ last_notify'.executed = Head(stack[1]).v.executed

\* every callback of the outermost dispatch gets the context of the write
\* of 1 to the word at 0
OuterContextKept ==
    Len(stack[1]) >= 2 =>
        LET c == stack[1][Len(stack[1]) - 1].v.ctx
        IN /\ c.address = 0
           /\ c.size = 4
           /\ c.value = 1
           /\ c.access_type = MEMORY_ACCESS_WRITE

\* C38: a memory write made by an action callback during a dispatch starts a
\* nested dispatch, walk and execution of all its matched actions, which is
\* over before the next action of the outer dispatch starts, and the outer
\* dispatch passes its original context (address, size, value) to its
\* remaining actions.
C38_NestedDispatch ==
    /\ [] (OuterWaits /\ OuterContextKept)
    /\ [][InnerWriteWalks /\ OuterUntouched /\ InnerCompletes]_vars

\* the second callback of the outer dispatch runs with the context of the
\* outer write after the first callback has written the word at 4 and the
\* nested dispatch for that write has run two callbacks
C38_Witness ==
    /\ Len(stack[1]) = 2
    /\ stack[1][2].v.i = 2
    /\ stack[1][1].v.ctx.value = 1
    /\ last_notify.valid
    /\ last_notify.ctx = InnerContext
    /\ Len(last_notify.executed) = 2

(* ---------------- accesses that are refused (SpecFail) ------------------ *)
\* the embedder creates the region [8, 16) with any flags, an action and a
\* watchpoint for reads and writes of the whole region with the action
\* bound; it then makes typed and buffer accesses, valid and invalid ones
FailAddrs == {4, 8, 9, 12, 14, 16}
FailFlags == {0, MEMORY_FLAG_READ, MEMORY_FLAG_WRITE,
              MEMORY_FLAG_READ + MEMORY_FLAG_WRITE}
FailLengths == {0, 3, 16}

FailSetup == stack[1] = <<>> /\ naccess = 0

FailCreate ==
    /\ FailSetup
    /\ memory_region_list = <<>>
    /\ \E fl \in FailFlags : memory_region_create(1, NULL, "reg", 8, 8, fl)

FailActionCreate ==
    /\ FailSetup
    /\ memory_region_list # <<>>
    /\ action_list = <<>>
    /\ action_create(1, ACTION_TYPE_CALLBACK, 1)

FailAdd ==
    /\ FailSetup
    /\ action_list # <<>>
    /\ watchpoint_list = <<>>
    /\ \E r \in LiveRegionPtrs : monitor_add_watchpoint(1, r, 8, 8, WATCHPOINT_ACCESS, 0)

FailBind ==
    /\ FailSetup
    /\ \E k \in 1 .. Len(watchpoint_list) :
          /\ watchpoint_list[k].action_ids = <<>>
          /\ monitor_bind_action(1, watchpoint_list[k].id, 1)

FailReady ==
    /\ stack[1] = <<>>
    /\ ~ heap_corrupted
    /\ naccess < AccAccesses
    /\ watchpoint_list # <<>>
    /\ watchpoint_list[1].action_ids # <<>>

FailTyped ==
    /\ FailReady
    /\ \E op \in TypedOps, r \in LiveRegionPtrs, a \in FailAddrs :
          memory_typed_access(1, op, r, a, IF op.kind = MEMORY_ACCESS_READ THEN 0 ELSE 1)

FailReadBuffer ==
    /\ FailReady
    /\ \E r \in LiveRegionPtrs, a \in FailAddrs, sz \in FailLengths :
          memory_read_buffer(1, r, a, sz)

FailWriteBuffer ==
    /\ FailReady
    /\ \E r \in LiveRegionPtrs, a \in FailAddrs, sz \in FailLengths :
          memory_write_buffer(1, r, a, [k \in 1 .. sz |-> (k + 1) % ByteMod])

FailDispatchNext == DispatchNext(1)

FailCallbackReturn == ActionCallbackReturn(1, PHYMUTI_SUCCESS)

FailNotifyReturn == NotifyReturn(1)

NextFail ==
    \/ FailCreate
    \/ FailActionCreate
    \/ FailAdd
    \/ FailBind
    \/ FailTyped
    \/ FailReadBuffer
    \/ FailWriteBuffer
    \/ FailDispatchNext
    \/ FailCallbackReturn
    \/ FailNotifyReturn

SpecFail == Init /\ [][NextFail]_vars

\* the step is an access by thread 1 whose accessor returns a code other
\* than PHYMUTI_SUCCESS, at once or after a dispatch
RefusedAccess ==
    /\ naccess' = naccess + 1
    /\ IF Len(stack'[1]) > Len(stack[1])
       THEN Head(stack'[1]).v.caller.out # PHYMUTI_SUCCESS
       ELSE last'.out # PHYMUTI_SUCCESS

\* the codes with which the accessors refuse an access
RefusalCodes ==
    {PHYMUTI_ERROR_INVALID_PARAM, PHYMUTI_ERROR_MEMORY_ALIGNMENT,
     PHYMUTI_ERROR_MEMORY_OUT_OF_RANGE, PHYMUTI_ERROR_MEMORY_PERMISSION}

\* a refused access changes no byte of any region, makes no broadcast and
\* starts no dispatch
RefusedChangesNothing ==
    RefusedAccess =>
        /\ memory_region_list' = memory_region_list
        /\ heap_corrupted' = heap_corrupted
        /\ nnotify' = nnotify
        /\ last_notify' = last_notify
        /\ stack' = stack
        /\ last'.out \in RefusalCodes

\* C39: a typed or buffer access that fails (invalid parameter, alignment,
\* out-of-range or permission error) leaves every byte of the region's
\* backing unchanged and makes no broadcast, so that no watchpoint action is
\* executed for it.
C39_RefusedAccessNoEffect == [][RefusedChangesNothing]_vars

\* after a write that ran the action of the watchpoint, a buffer write of 16
\* bytes at the base of the region has been refused as out of range
C39_Witness ==
    /\ naccess = 2
    /\ nnotify = 1
    /\ last_notify.valid
    /\ Len(last_notify.executed) = 1
    /\ last.op = "memory_write_buffer"
    /\ last.out = PHYMUTI_ERROR_MEMORY_OUT_OF_RANGE
    /\ last.in.addr = 8
    /\ watchpoint_list[1].enabled

(* ------- action_execute while the action is destroyed (SpecRace) -------- *)
\* the callback pointer and the user data every action of this
\* specification is created with
REGISTERED == 1

\* action_execute of a callback action up to the pthread_mutex_unlock before
\* the call: the record is looked up and its type and callback are tested
\* under action_mutex, and the pointer to the record stays in the local
\* variable `action`
action_execute_lookup(t, id, ctx) ==
    /\ CanCall(t)
    /\ id # ACTION_INVALID_ID
    /\ CanLock("action_mutex", t)
    /\ mutex' = Unlock(Lock(mutex, "action_mutex", t), "action_mutex", t)
    /\ IF FindAction(id) = 0
       THEN /\ last' = Returned("action_execute", <<id>>, PHYMUTI_ERROR_ACTION_NOT_FOUND)
            /\ UNCHANGED stack
       ELSE /\ stack' = Push(t, [op |-> "action_execute", pc |-> "unlocked",
                                 v |-> [id |-> id, ctx |-> ctx, direct |-> TRUE,
                                        callee |-> NULL, freed |-> FALSE]])
            /\ UNCHANGED last
    /\ UNCHANGED <<devVars, memVars, monVars, actVars, ruleVars, last_notify, nnotify>>

\* the call action->data.callback_data.callback(context, action->user_data)
\* after the unlock: both fields are read from the record without the mutex;
\* when the record has been freed by then the values read are indeterminate
\* (they may still be the old ones); `freed` records that the read was made
\* from a freed record
action_execute_invoke(t) ==
    /\ stack[t] # <<>>
    /\ Head(stack[t]).op = "action_execute"
    /\ Head(stack[t]).pc = "unlocked"
    /\ LET live == FindAction(Head(stack[t]).v.id) # 0
       IN \E read \in (IF live THEN {REGISTERED} ELSE {REGISTERED, INDETERMINATE}) :
             stack' = [stack EXCEPT ![t] =
                          <<[Head(@) EXCEPT !.pc = "user", !.v.callee = read,
                                            !.v.freed = ~ live]>> \o Tail(@)]
    /\ UNCHANGED <<devVars, memVars, monVars, actVars, ruleVars, mutex, last,
                   last_notify, nnotify>>

\* two threads create callback actions, execute them and destroy them, from
\* their own code and from the callbacks
RaceContext == Context(NULL, 0, 4, 1, MEMORY_ACCESS_WRITE)

RaceCreate ==
    /\ next_action_id <= MaxActions + 1
    /\ \E t \in Threads : action_create(t, ACTION_TYPE_CALLBACK, REGISTERED)

RaceExecute ==
    \E t \in Threads, id \in 1 .. MaxActions :
        /\ Len(stack[t]) < CbDepth
        /\ action_execute_lookup(t, id, RaceContext)

RaceInvoke == \E t \in Threads : action_execute_invoke(t)

RaceDestroy == \E t \in Threads, id \in 1 .. MaxActions : action_destroy(t, id)

RaceCallbackReturn ==
    \E t \in Threads, r \in CallbackResults : ActionCallbackReturn(t, r)

NextRace ==
    \/ RaceCreate
    \/ RaceExecute
    \/ RaceInvoke
    \/ RaceDestroy
    \/ RaceCallbackReturn

SpecRace == Init /\ [][NextRace]_vars

\* every callback that runs was called through fields read from a record
\* that was still allocated, with the pointer and user data of the action
CalledFromLiveRecord ==
    \A t \in Threads : \A i \in 1 .. Len(stack[t]) :
        (stack[t][i].op = "action_execute" /\ stack[t][i].pc = "user")
           => /\ ~ stack[t][i].v.freed
              /\ stack[t][i].v.callee = REGISTERED

\* an action_execute that does not run a callback returns ACTION_NOT_FOUND,
\* and then the action is not registered
NotFoundWhenAbsent ==
    (last' # last /\ last'.op = "action_execute" /\ stack' = stack)
       => /\ last'.out = PHYMUTI_ERROR_ACTION_NOT_FOUND
          /\ FindAction(last'.in[1]) = 0

\* C40: when action_execute(id) runs while action_destroy(id) runs on another
\* thread, or the callback of the action destroys it, action_execute never
\* reads a field of the action record after the record has been freed: it
\* runs the callback with the callback pointer and the user data the action
\* had while it was registered, or it returns ACTION_NOT_FOUND.
C40_NoReadAfterFree ==
    /\ [] CalledFromLiveRecord
    /\ [][NotFoundWhenAbsent]_vars

====
